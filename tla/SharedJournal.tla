----------------------------- MODULE SharedJournal -----------------------------
(***************************************************************************)
(* What a vault file promises its sessions, without locks, temporaries,    *)
(* rollbacks or faults: one journal that grows at its end, and for each    *)
(* session the last version of it the session knows.  A transaction is one *)
(* step that appends; its author may or may not learn that it happened.    *)
(* Only a step of another program, or of a session such a step left        *)
(* exposed, may do anything else to the journal, and a session never takes *)
(* up a journal that does not continue the one it knows.                   *)
(***************************************************************************)
EXTENDS Naturals, Sequences

CONSTANT Sessions

VARIABLES journal,    \* the current version: its generation (0: none) and log
          view,       \* session -> the version it knows, generation 0 if none
          agreed,     \* session -> the generation its user agreed to discard
          exposed,    \* sessions that may overwrite what they have not seen
          intrusions  \* how often another program intruded

journalVars == <<journal, view, agreed, exposed, intrusions>>

Nothing == [gen |-> 0, log |-> <<>>]

Extends(old, new) ==
  /\ Len(old) <= Len(new)
  /\ \A i \in 1..Len(old) : new[i] = old[i]

\* The author of a write knows the new version, or does not know if it landed.
AuthorSees(s) == view' \in {view, [view EXCEPT ![s] = journal']}

JournalInit ==
  /\ view = [s \in Sessions |-> Nothing]
  /\ agreed = [s \in Sessions |-> 0]
  /\ exposed = {}
  /\ intrusions = 0

\* A session begins with the current version.
Attach(s) ==
  /\ view[s] = Nothing
  /\ view' = [view EXCEPT ![s] = journal]
  /\ UNCHANGED <<journal, agreed, exposed, intrusions>>

Detach(s) ==
  /\ view' = [view EXCEPT ![s] = Nothing]
  /\ agreed' = [agreed EXCEPT ![s] = 0]
  /\ exposed' = exposed \ {s}
  /\ UNCHANGED <<journal, intrusions>>

\* It moves on to the current version, which continues the one it knows.
Refresh(s) ==
  /\ journal # Nothing
  /\ Extends(view[s].log, journal.log)
  /\ view' = [view EXCEPT ![s] = journal]
  /\ exposed' \in {exposed, exposed \ {s}}
  /\ UNCHANGED <<journal, agreed, intrusions>>

Transact(s) ==
  /\ journal # Nothing
  /\ Extends(view[s].log, journal.log)
  /\ Extends(journal.log, journal'.log)
  /\ journal'.gen # journal.gen
  /\ AuthorSees(s)
  /\ UNCHANGED <<agreed, exposed, intrusions>>

\* The session's own version replaces one its user agreed to discard, or
\* starts the journal where there is none.
Override(s) ==
  /\ agreed[s] = journal.gen
  /\ Extends(view[s].log, journal'.log)
  /\ journal'.gen # journal.gen
  /\ AuthorSees(s)
  /\ UNCHANGED <<agreed, exposed, intrusions>>

Agree(s) ==
  /\ agreed' = [agreed EXCEPT ![s] = journal.gen]
  /\ UNCHANGED <<journal, view, exposed, intrusions>>

\* Its call ends without a write.
Withdraw(s) ==
  /\ exposed' = exposed \ {s}
  /\ UNCHANGED <<journal, view, agreed, intrusions>>

Overrun(s) ==
  /\ s \in exposed
  /\ AuthorSees(s)
  /\ UNCHANGED <<agreed, intrusions>>

Intrude ==
  /\ intrusions' = intrusions + 1
  /\ UNCHANGED <<view, agreed>>

JournalNext ==
  \/ \E s \in Sessions :
       \/ Attach(s) \/ Detach(s)
       \/ Refresh(s) \/ Transact(s) \/ Override(s)
       \/ Agree(s) \/ Withdraw(s) \/ Overrun(s)
  \/ Intrude

JournalSpec == JournalInit /\ [][JournalNext]_journalVars
=============================================================================
