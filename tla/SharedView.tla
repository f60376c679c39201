---------------------------- MODULE SharedView ----------------------------
(***************************************************************************)
(* What a device computes from the records it holds of a shared vault: the *)
(* roster (kagisecure-shared/src/roster.rs), the epoch keys (epoch.rs),    *)
(* the versions it accepts (view.rs) and the item a person is shown        *)
(* (merge.rs). Nothing of it is stored: it is a function of a set of       *)
(* records, and two devices meet only in the records they exchange.        *)
(*                                                                         *)
(* A record is named by its place in `signed`, every record ever signed.   *)
(* Signatures verify and every author is known: nobody outside the vault   *)
(* writes. A member has one device, and the two records that add them are  *)
(* one. There is one item, with one field. An epoch is the record that     *)
(* minted it. Acknowledgements, environments, unknown operations and the   *)
(* limits on sizes are left out.                                           *)
(***************************************************************************)
EXTENDS Naturals, Sequences, FiniteSets

CONSTANTS
  Devices,       \* device keys
  Values,        \* values of the item's field
  Deleted,       \* what a person sees of a deleted item
  Absent         \* what a person sees of an item never written

VARIABLE signed  \* every record ever signed, in the order they were signed

Members  == {"reader", "writer", "admin"}
Roles    == Members \cup {"absent", "removed"}
Writers  == {"writer", "admin"}
RosterOp == {"genesis", "add", "remove", "role"}
ItemOp   == {"put", "delete"}
EpochOp  == {"new", "grant"}
NoRecord == 0

Record == [
  author  : Devices, seq : Nat, prev : Nat,
  heads   : SUBSET Nat,                  \* the roster heads it names
  kind    : RosterOp \cup ItemOp \cup EpochOp,
  rank    : Nat,                         \* its place among concurrent records
  subject : Devices, role : Members,     \* of a roster operation
  epoch   : Nat,                         \* the epoch it is written under or grants
  height  : Nat, to : SUBSET Devices,    \* of an epoch: whom the key is wrapped to
  parents : SUBSET Nat, value : Values \cup {Deleted}]

\* Record ids, and for items (claimed time, record id): a total order.
Before(i, j) ==
  \/ signed[i].rank < signed[j].rank
  \/ signed[i].rank = signed[j].rank /\ i < j

Smallest(T) == CHOOSE i \in T : \A j \in T \ {i} : Before(i, j)
Latest(T)   == CHOOSE i \in T : \A j \in T \ {i} : Before(j, i)
Elements(s) == {s[n] : n \in DOMAIN s}
-----------------------------------------------------------------------------
(* The roster.                                                             *)

\* One roster record for each author and position: the smaller record id.
Kept(S) ==
  LET ops == {i \in S : signed[i].kind \in RosterOp}
  IN  {i \in ops : ~\E j \in ops : /\ signed[j].author = signed[i].author
                                   /\ signed[j].seq = signed[i].seq
                                   /\ Before(j, i)}

\* A record comes after the heads it names and its author's previous one.
Edges(ops, i) == signed[i].heads \cup ({signed[i].prev} \cap ops)

\* linearize: a topological order, ties by record id. A record with a head that
\* is not here waits, and with it all that build on it.
Order(S) ==
  LET kept  == Kept(S)
      graph == {i \in kept : signed[i].heads \subseteq kept}
      grown[n \in 0..Cardinality(graph)] ==
        IF n = 0 THEN <<>>
        ELSE LET before == grown[n - 1]
                 done   == Elements(before)
                 ready  == {i \in graph \ done : Edges(kept, i) \subseteq done}
             IN  IF ready = {} THEN before ELSE Append(before, Smallest(ready))
  IN  grown[Cardinality(graph)]

\* A record applies if its author is an admin at that point and it makes sense.
Applies(roles, r) ==
  \/ r.kind = "genesis"
  \/ /\ roles[r.author] = "admin"
     /\ \/ r.kind = "add" /\ roles[r.subject] = "absent"
        \/ r.kind = "remove" /\ roles[r.subject] \in Members
        \/ /\ r.kind = "role" /\ roles[r.subject] \in Members
           /\ roles[r.subject] # r.role

\* RosterSnapshot::apply.
Applied(roles, r) ==
  [d \in Devices |-> IF d # r.subject THEN roles[d]
                     ELSE IF r.kind = "remove" THEN "removed" ELSE r.role]

\* RosterState::compute: the order, and everybody's role after each record of it.
RosterOf(S) ==
  LET order == Order(S)
      roles[n \in 0..Len(order)] ==
        IF n = 0 THEN <<[d \in Devices |-> "absent"]>>
        ELSE LET before == roles[n - 1]
                 now    == before[n]
                 r      == signed[order[n]]
             IN  Append(before, IF Applies(now, r) THEN Applied(now, r) ELSE now)
  IN  [order |-> order, roles |-> roles[Len(order)]]

RolesNow(R) == R.roles[Len(R.roles)]

\* The heads a new record names: applied ones that no applied one builds on.
HeadsOf(S, R) ==
  LET applied == {R.order[n] : n \in {m \in DOMAIN R.order : R.roles[m + 1] # R.roles[m]}}
      named   == UNION {Edges(Kept(S), i) : i \in applied}
  IN  applied \ named

\* A roster that reads the role its author holds today.
AuthorityToday(R, i) ==
  IF signed[i].heads \subseteq Elements(R.order)
  THEN RolesNow(R)[signed[i].author] ELSE "absent"

\* RosterState::authority: the author's role after the latest head it names.
\* Without one of them here the record waits.
Authority(R, i) ==
  LET places == {n \in DOMAIN R.order : R.order[n] \in signed[i].heads}
      latest == CHOOSE n \in places : \A m \in places : m <= n
  IN  IF signed[i].heads \subseteq Elements(R.order)
      THEN R.roles[latest + 1][signed[i].author]
      ELSE "absent"

MayWrite(R, i) == Authority(R, i) \in Writers
-----------------------------------------------------------------------------
(* The key ring.                                                           *)

\* KeyRing::build: the epochs of writers, and whom their keys were wrapped to.
Epochs(S, R) == {i \in S : signed[i].kind = "new" /\ MayWrite(R, i)}

Grants(S, R, e) ==
  {i \in S : signed[i].kind = "grant" /\ signed[i].epoch = e /\ MayWrite(R, i)}

\* Whom the key was wrapped to when it was minted, without later grants.
MintedFor(S, R, e) == signed[e].to

Recipients(S, R, e) == signed[e].to \cup UNION {signed[g].to : g \in Grants(S, R, e)}

KeysOf(S, R, d) == {e \in Epochs(S, R) : d \in Recipients(S, R, e)}

\* The epoch to write under: the highest whose key the device holds, then the
\* smallest record id.
Current(S, R, d) ==
  LET keys   == KeysOf(S, R, d)
      newest == {e \in keys : \A f \in keys : signed[f].height <= signed[e].height}
  IN  Smallest(newest)

NextHeight(S, R) ==
  LET heights == {signed[e].height + 1 : e \in Epochs(S, R)}
  IN  CHOOSE h \in heights \cup {0} : \A k \in heights : k <= h
-----------------------------------------------------------------------------
(* The versions a device accepts, and what it shows.                       *)

\* SharedView::compute: versions by writers, under a key the device holds.
Accepted(S, d) ==
  LET R    == RosterOf(S)
      keys == KeysOf(S, R, d)
  IN  {i \in S : signed[i].kind \in ItemOp /\ signed[i].epoch \in keys /\ MayWrite(R, i)}

\* The versions no other version names, which a new version is made on.
Tips(V) == V \ UNION {signed[i].parents : i \in V}

\* What each version descends from, among the accepted ones.
Ancestry(V) ==
  LET up[i \in V] ==
        LET above == signed[i].parents \cap V
        IN  above \cup UNION {up[p] : p \in above}
  IN  up

\* A merge that goes by the claimed times alone.
LatestByClock(up, candidates) == Latest(candidates)

\* Those that no other candidate descends from, then the latest.
Winner(up, candidates) ==
  Latest({i \in candidates : \A j \in candidates : i \notin up[j]})

\* A version sets the field if it differs from each of the versions it was made on.
Sets(V, i) == \A p \in signed[i].parents \cap V : signed[p].value # signed[i].value

\* A deletion beats what it descends from and what is concurrent and earlier.
Beaten(V, up, e) ==
  \E x \in V : /\ signed[x].kind = "delete"
               /\ e \in up[x] \/ (x \notin up[e] /\ Before(e, x))

\* merge: the item as a person sees it.
Shown(V) ==
  LET up       == Ancestry(V)
      standing == {e \in V : signed[e].kind = "put" /\ ~Beaten(V, up, e)}
      setters  == {e \in standing : Sets(V, e)}
  IN  IF V = {} THEN Absent
      ELSE IF standing = {} THEN Deleted
      ELSE signed[Winner(up, IF setters # {} THEN setters ELSE standing)].value
=============================================================================
