---------------------------- MODULE SharedVault ----------------------------
(***************************************************************************)
(* Devices that share a vault (kagisecure-shared): each keeps a replica,   *)
(* a file of records and a handle a process holds on it (replica.rs), and  *)
(* exchanges records through a directory that a sync tool carries around   *)
(* (exchange.rs, admin/exchange.rs). Each change is one transaction that   *)
(* starts from what a device holds (write.rs), computes its view and signs *)
(* records; admins invite, remove and change roles (admin/).               *)
(*                                                                         *)
(* A transaction is one step: VaultFile shows how the lock and the atomic  *)
(* write make it one. Its reply may be lost after the write. Records reach *)
(* the directory one by one, and another device one by one in any order.   *)
(* One process at a time has a device's replica open; the directory is not *)
(* what gets restored; rebuilding a damaged replica is left out.           *)
(***************************************************************************)
EXTENDS SharedView, SequencesExt

CONSTANTS
  Creator,       \* the device the vault was created on
  Founders,      \* devices that joined as writers before anything was written
  GrantedRoles,  \* roles a device is invited with or given later
  Restorable,    \* devices whose replica file may be put back
  Times,         \* claimed times of item versions
  Hashes,        \* record ids of roster records and epochs, in order
  MaxItems,      \* bound: item versions written
  MaxChanges,    \* bound: changes of the roster
  MaxCopies,     \* bound: copies taken of one replica file
  MaxMishaps     \* bound: replies lost and replica files put back

ASSUME SharedAssumption ==
  /\ Creator \in Devices /\ Founders \subseteq Devices \ {Creator}
  /\ IsFiniteSet(Founders)
  /\ Restorable \subseteq Devices /\ GrantedRoles \subseteq Members
  /\ Times \subseteq Nat \ {0} /\ Hashes \subseteq Nat \ {0}
  /\ {MaxItems, MaxChanges, MaxCopies, MaxMishaps} \subseteq Nat
  /\ Deleted \notin Values /\ Absent \notin Values

VARIABLES
  file,          \* file[d]: the records in d's replica file
  handle,        \* handle[d]: the records the process that has it open holds
  dir,           \* the records in the exchange directory
  copies,        \* copies[d]: the copies taken of d's file
  revived,       \* history: d's own records put back after d had lost them
  mishaps,       \* how often a reply was lost or a file put back
  fresh          \* the item version written by the last step, or none

stateVars == <<file, handle, dir, copies>>
vars == <<signed, stateVars, revived, mishaps, fresh>>

Blank == [author |-> Creator, seq |-> 0, prev |-> NoRecord, heads |-> {},
          kind |-> "genesis", rank |-> 0, subject |-> Creator, role |-> "admin",
          epoch |-> NoRecord, height |-> 0, to |-> {}, parents |-> {},
          value |-> Deleted]

Addition(d, role) == [Blank EXCEPT !.kind = "add", !.subject = d, !.role = role]
Grant(e, d)       == [Blank EXCEPT !.kind = "grant", !.epoch = e, !.to = {d}]
NewEpoch(h, to)   == [Blank EXCEPT !.kind = "new", !.height = h, !.to = to]

\* create, then an invitation for each founder.
InitialRecords ==
  LET joined == SetToSeq(Founders)
      Placed(r, n, heads) ==
        [r EXCEPT !.seq = n - 1, !.prev = n - 1, !.heads = heads]
      Adding(n) == IF n = 0 THEN {1} ELSE {2 * n + 1}
  IN  [n \in 1..(2 + 2 * Len(joined)) |->
         IF n = 1 THEN Blank
         ELSE IF n = 2 THEN Placed(NewEpoch(0, {Creator}), n, {1})
         ELSE LET k == (n - 1) \div 2
              IN  IF n % 2 = 1
                  THEN Placed(Addition(joined[k], "writer"), n, Adding(k - 1))
                  ELSE Placed(Grant(2, joined[k]), n, Adding(k))]

TypeOK ==
  /\ signed \in Seq(Record)
  /\ {file, handle} \subseteq [Devices -> SUBSET DOMAIN signed]
  /\ copies \in [Devices -> SUBSET SUBSET DOMAIN signed]
  /\ dir \cup revived \subseteq DOMAIN signed /\ fresh \in {NoRecord, Len(signed)}
  /\ mishaps \in 0..MaxMishaps
  /\ \A i \in DOMAIN signed :
       LET r == signed[i]
       IN  /\ r.heads \cup r.parents \cup {r.prev} \subseteq 0..(i - 1)
           /\ r.kind \in ItemOp \cup {"grant"} =>
                 r.epoch \in 1..(i - 1) /\ signed[r.epoch].kind = "new"

Start == [d \in Devices |->
            IF d \in Founders \cup {Creator} THEN DOMAIN InitialRecords ELSE {}]

Init ==
  /\ signed = InitialRecords
  /\ file = Start /\ handle = Start
  /\ copies = [d \in Devices |-> {}] /\ revived = {}
  /\ dir = DOMAIN InitialRecords
  /\ mishaps = 0 /\ fresh = NoRecord
-----------------------------------------------------------------------------
(* A transaction.                                                          *)

\* A device with a replica.
Joined(d) == file[d] # {}

\* A draft that does not take in what the device published.
FromReplica(d) == file[d] \cup handle[d]

\* transact starts from the file and the handle; Draft::begin takes in this
\* device's own records from the exchange directory.
Holds(d) == file[d] \cup handle[d] \cup {i \in dir : signed[i].author = d}

\* next_position: after the device's last record, the smaller id of two.
LastOwn(S, d) ==
  LET own == {i \in S : signed[i].author = d}
      top == {i \in own : \A j \in own : signed[j].seq <= signed[i].seq}
  IN  IF own = {} THEN NoRecord ELSE Smallest(top)

NextSeq(S, d) ==
  IF LastOwn(S, d) = NoRecord THEN 0 ELSE signed[LastOwn(S, d)].seq + 1

\* Signing that counts the position before it places the record.
CountedFirst(S, d, drafts) ==
  [n \in DOMAIN drafts |->
     [drafts[n] EXCEPT
        !.author = d, !.seq = NextSeq(S, d) + n, !.prev = Len(signed) + n]]

\* Draft::header and Draft::wrote: each record is placed after the one before.
Signing(S, d, drafts) ==
  [n \in DOMAIN drafts |->
     [drafts[n] EXCEPT
        !.author = d, !.seq = NextSeq(S, d) + n - 1,
        !.prev = IF n = 1 THEN LastOwn(S, d) ELSE Len(signed) + n - 1]]

Mishap == mishaps < MaxMishaps /\ mishaps' = mishaps + 1

\* The transaction's records are in the file. The reply may be lost, and with it
\* the handle's knowledge of them.
Transact(d, drafts) ==
  LET S   == Holds(d)
      new == (Len(signed) + 1)..(Len(signed) + Len(drafts))
  IN  /\ signed' = signed \o Signing(S, d, drafts)
      /\ file' = [file EXCEPT ![d] = S \cup new]
      /\ \/ handle' = [handle EXCEPT ![d] = S \cup new] /\ UNCHANGED mishaps
         \/ Mishap /\ UNCHANGED handle

Count(kinds) == Cardinality({i \in DOMAIN signed : signed[i].kind \in kinds})
Changes == Count({"add", "remove", "role"}) - Cardinality(Founders)
-----------------------------------------------------------------------------
(* Items.                                                                  *)

\* write_version: by a writer, on the versions nobody built on, under the
\* newest key the device holds.
WriteVersion(d, kind, value, time) ==
  LET S == Holds(d)
      R == RosterOf(S)
  IN  /\ Joined(d)
      /\ Count(ItemOp) < MaxItems
      /\ RolesNow(R)[d] \in Writers
      /\ KeysOf(S, R, d) # {}
      /\ Transact(d, <<[Blank EXCEPT
           !.kind = kind, !.value = value, !.rank = time,
           !.heads = HeadsOf(S, R), !.parents = Tips(Accepted(S, d)),
           !.epoch = Current(S, R, d)]>>)
      /\ fresh' = Len(signed')
      /\ UNCHANGED <<dir, copies, revived>>

PutItem(d) == \E v \in Values, t \in Times : WriteVersion(d, "put", v, t)

\* A person deletes an item they are shown.
DeleteItem(d) ==
  /\ Shown(Accepted(Holds(d), d)) \in Values
  /\ \E t \in Times : WriteVersion(d, "delete", Deleted, t)
-----------------------------------------------------------------------------
(* Members.                                                                *)

\* An admin may change the roster.
Admin(d, R) == RolesNow(R)[d] = "admin"

\* change: not if no admin would be left, nor this device out of the roster.
Allowed(d, R, op) ==
  LET after == Applied(RolesNow(R), op)
  IN  (\E m \in Devices : after[m] = "admin") /\ after[d] # "removed"

\* A rotation that goes by the roster before the removal.
ActiveNow(R, op) == {m \in Devices : RolesNow(R)[m] \in Members}

\* The devices a new epoch is wrapped to.
ActiveAfter(R, op) == {m \in Devices : Applied(RolesNow(R), op)[m] \in Members}

\* remove_member: the removal, and in the same transaction an epoch for the
\* devices that are left.
RemoveMember(d, m) ==
  \E h, k \in Hashes :
    LET S  == Holds(d)
        R  == RosterOf(S)
        op == [Blank EXCEPT !.kind = "remove", !.subject = m, !.rank = h,
                            !.heads = HeadsOf(S, R)]
        epoch == [NewEpoch(NextHeight(S, R), ActiveAfter(R, op)) EXCEPT
                    !.rank = k, !.heads = {Len(signed) + 1}]
    IN  /\ Joined(d) /\ Changes < MaxChanges
        /\ Admin(d, R) /\ RolesNow(R)[m] \in Members
        /\ Allowed(d, R, op)
        /\ Transact(d, <<op, epoch>>)
        /\ fresh' = NoRecord
        /\ UNCHANGED <<dir, copies, revived>>

\* set_role.
SetRole(d, m) ==
  \E h \in Hashes, role \in GrantedRoles :
    LET S  == Holds(d)
        R  == RosterOf(S)
        op == [Blank EXCEPT !.kind = "role", !.subject = m, !.role = role,
                            !.rank = h, !.heads = HeadsOf(S, R)]
    IN  /\ Joined(d) /\ Changes < MaxChanges
        /\ Admin(d, R) /\ RolesNow(R)[m] \in Members \ {role}
        /\ Allowed(d, R, op)
        /\ Transact(d, <<op>>)
        /\ fresh' = NoRecord
        /\ UNCHANGED <<dir, copies, revived>>

\* The keys an invitation grants.
GrantsAll(S, R, d) == KeysOf(S, R, d)

\* invite and join: a new device, and a grant of every key the admin holds. The
\* records are published, and then the invitation is made, which carries the
\* admin's replica. The new device starts with that.
Invite(d, m) ==
  \E h \in Hashes, role \in GrantedRoles :
    LET S   == Holds(d)
        R   == RosterOf(S)
        add == [Addition(m, role) EXCEPT !.rank = h, !.heads = HeadsOf(S, R)]
        keys   == SetToSeq(GrantsAll(S, R, d))
        grants == [n \in DOMAIN keys |->
                     [Grant(keys[n], m) EXCEPT !.heads = {Len(signed) + 1}]]
    IN  /\ Joined(d) /\ Changes < MaxChanges
        /\ Admin(d, R)
        /\ \A i \in DOMAIN signed : signed[i].kind = "add" => signed[i].subject # m
        /\ m # Creator
        /\ signed' = signed \o Signing(S, d, <<add>> \o grants)
        /\ LET all == S \cup (Len(signed) + 1)..Len(signed') IN
             \/ /\ dir' = dir \cup (Len(signed) + 1)..Len(signed')
                /\ file' = [file EXCEPT ![d] = all, ![m] = all]
                /\ handle' = [handle EXCEPT ![d] = all, ![m] = all]
                /\ UNCHANGED mishaps
             \/ /\ Mishap
                /\ file' = [file EXCEPT ![d] = all]
                /\ UNCHANGED <<dir, handle>>
        /\ fresh' = NoRecord
        /\ UNCHANGED <<copies, revived>>
-----------------------------------------------------------------------------
(* The exchange, and what befalls a replica.                               *)

\* publish, and export_dir: record by record.
Export(d, i) ==
  /\ i \in handle[d] \ dir
  /\ dir' = dir \cup {i}
  /\ fresh' = NoRecord
  /\ UNCHANGED <<signed, file, handle, copies, revived, mishaps>>

\* import_dir: whatever the sync tool has delivered, in one transaction.
Import(d, i) ==
  /\ Joined(d)
  /\ i \in dir \ handle[d]
  /\ LET all == file[d] \cup handle[d] \cup {i} IN
       /\ file' = [file EXCEPT ![d] = all]
       /\ handle' = [handle EXCEPT ![d] = all]
  /\ fresh' = NoRecord
  /\ UNCHANGED <<signed, dir, copies, revived, mishaps>>

\* The application starts again.
Reopen(d) ==
  /\ handle[d] # file[d]
  /\ handle' = [handle EXCEPT ![d] = file[d]]
  /\ fresh' = NoRecord
  /\ UNCHANGED <<signed, file, dir, copies, revived, mishaps>>

\* A backup, or a sync tool, keeps the replica file as it is now.
Backup(d) ==
  /\ d \in Restorable /\ Joined(d)
  /\ file[d] \notin copies[d] /\ Cardinality(copies[d]) < MaxCopies
  /\ copies' = [copies EXCEPT ![d] = @ \cup {file[d]}]
  /\ fresh' = NoRecord
  /\ UNCHANGED <<signed, file, handle, dir, revived, mishaps>>

\* A restore, or a sync tool, puts any of the copies back: it takes records away,
\* and may bring back what another took.
Restore(d) ==
  /\ d \in Restorable /\ Mishap
  /\ \E c \in copies[d] \ {file[d]} :
       /\ file' = [file EXCEPT ![d] = c]
       /\ revived' = revived \cup {i \in c \ Holds(d) : signed[i].author = d}
  /\ fresh' = NoRecord
  /\ UNCHANGED <<signed, handle, dir, copies>>
-----------------------------------------------------------------------------
ItemStep(d) == PutItem(d) \/ DeleteItem(d)

AdminStep(d) ==
  \E m \in Devices \ {d} : RemoveMember(d, m) \/ SetRole(d, m) \/ Invite(d, m)

ExchangeStep(d) == \E i \in DOMAIN signed : Export(d, i) \/ Import(d, i)

Next ==
  \E d \in Devices :
    \/ ItemStep(d) \/ AdminStep(d) \/ ExchangeStep(d)
    \/ Reopen(d) \/ Backup(d) \/ Restore(d)

Spec == Init /\ [][Next]_vars
-----------------------------------------------------------------------------
(* Properties.                                                             *)

\* A device publishes no position twice, whatever copies are put back and whose
\* reply is lost, unless one of the two records was lost to it and a later restore
\* brought it back. next_position goes on after everything the device published
\* (write.rs, import_own) and everything its transaction wrote (replica.rs), but no
\* write can know of a record that only a copy of the file has.
PositionsPublishedOnce ==
  \A i, j \in dir :
    /\ signed[i].author = signed[j].author /\ signed[i].seq = signed[j].seq
    /\ {i, j} \cap revived = {}
    => i = j

\* Devices that hold the same records show the same item, even one that joined
\* after the epoch keys changed and one that a restore or a lost reply set back.
MembersAgree ==
  \A d, e \in Devices :
    LET S == file[d]
    IN  d # e /\ Joined(d) /\ S = file[e]
          /\ {RolesNow(RosterOf(S))[d], RolesNow(RosterOf(S))[e]} \subseteq Members
        => /\ Accepted(S, d) = Accepted(S, e)
           /\ Shown(Accepted(S, d)) = Shown(Accepted(S, e))

\* The records an item version's author had seen: its heads and what they name.
Seen(i) ==
  LET below[k \in 0..Len(signed)] ==
        IF k = NoRecord THEN {}
        ELSE {k} \cup UNION {below[j] : j \in signed[k].heads}
  IN  UNION {below[j] : j \in signed[i].heads}

Removals(i) == {j \in Seen(i) : signed[j].kind = "remove"}

\* Everybody a key was ever wrapped to, anywhere.
Readers(e) ==
  signed[e].to \cup
    UNION {signed[g].to : g \in {i \in DOMAIN signed : /\ signed[i].kind = "grant"
                                                       /\ signed[i].epoch = e}}

\* Everything written from a removal on is under a key the removed device never
\* had (admin/remove.rs:6-7): nothing written afterwards by a device that has
\* seen the removal is readable by the removed one.
RemovedReadsNothingNew ==
  \A i \in DOMAIN signed : signed[i].kind \in ItemOp =>
    \A j \in Removals(i) : signed[j].subject \notin Readers(signed[i].epoch)

\* What a removal rotates to keeps the removed device out: a device that holds both
\* records of a removal, and what they name, writes nothing more that the removed
\* one could read.
RotationKeepsOut ==
  \A d \in Devices :
    LET S == Holds(d)
        R == RosterOf(S)
    IN  Joined(d) /\ RolesNow(R)[d] \in Writers =>
          \A j \in S : signed[j].kind = "remove" /\ j + 1 \in Epochs(S, R) =>
            signed[j].subject \notin Readers(Current(S, R, d))

AcceptedBy(d) == Accepted(file[d], d)

\* What a device accepted it goes on accepting, in whatever order records arrive:
\* the last to come takes nothing back, be it a removal or the loss of a role, for
\* a version's author is judged by the roster its version names.
AcceptedStays ==
  \A d \in Devices : \A i \in file[d] :
    Accepted(file[d] \ {i}, d) \subseteq AcceptedBy(d)

\* A person who writes sees what they wrote: the new version beats everything it
\* was made on, whatever times the others claim, unless it set nothing.
OwnWriteShown ==
  LET r == signed[fresh]
      V == AcceptedBy(r.author)
  IN  fresh # NoRecord =>
        /\ fresh \in V
        /\ \/ Shown(V) = r.value
           \/ \E p \in r.parents : signed[p].value = r.value
-----------------------------------------------------------------------------
(* Why PositionsPublishedOnce and OwnWriteShown hold.                       *)

\* A record that is published, or with another device than its author.
Abroad(i) ==
  \/ i \in dir
  \/ \E e \in Devices \ {signed[i].author} :
       i \in file[e] \cup handle[e] \cup UNION copies[e]

\* A record that some device holds or may still take in. One of which only its
\* author has a copy is not, until it is put back.
AtLarge(i) == Abroad(i) \/ i \in LET d == signed[i].author IN file[d] \cup handle[d]

\* What went abroad is no further than what was published, so that its author, which
\* starts from what it published and holds, starts after everything at large.
PositionsInv ==
  /\ \A i \in DOMAIN signed : Abroad(i) =>
       \E j \in dir : /\ signed[j].author = signed[i].author
                     /\ signed[i].seq <= signed[j].seq
  /\ \A i, j \in DOMAIN signed :
       /\ AtLarge(i) /\ AtLarge(j)
       /\ signed[i].author = signed[j].author /\ signed[i].seq = signed[j].seq
       /\ {i, j} \cap revived = {}
       => i = j

\* Version i of device d stands on what d held: it is by a writer, under the newest
\* key, on every version nobody built on, and names the heads of the roster.
StandsOn(S, d, i) ==
  LET r == signed[i]
      R == RosterOf(S)
  IN  /\ r.author = d /\ r.kind \in ItemOp /\ (r.kind = "delete" => r.value = Deleted)
      /\ RolesNow(R)[d] \in Writers /\ KeysOf(S, R, d) # {}
      /\ r.heads = HeadsOf(S, R) /\ r.epoch = Current(S, R, d)
      /\ r.parents = Tips(Accepted(S, d))

\* The version just written stands on everything its author has but the version.
FreshInv ==
  fresh # NoRecord =>
    /\ fresh = Len(signed)
    /\ \E d \in Devices : \E S \in {file[d] \ {fresh}} :
         StandsOn(S, d, fresh) /\ fresh \in file[d]
-----------------------------------------------------------------------------
(* Why MembersAgree, RotationKeepsOut and AcceptedStays hold with one admin. *)

\* One device has the role of an admin, and no older copy of its replica comes back.
OneAdmin == "admin" \notin GrantedRoles /\ Creator \notin Restorable

OfKind(kinds) == {i \in DOMAIN signed : signed[i].kind \in kinds}
Earlier(kinds, i) == {j \in OfKind(kinds) : j < i}

\* The admin holds all it ever signed, and its roster records are a chain: each names
\* the one before.
ChainInv ==
  /\ \A i \in DOMAIN signed :
       LET r == signed[i]
       IN  /\ r.kind = "genesis" <=> i = 1
           /\ i # 1 => r.heads # {}
           /\ r.author = Creator =>
                /\ i \in file[Creator]
                /\ \A j \in DOMAIN signed : signed[j].author = Creator /\ j < i
                                              => signed[j].seq < r.seq
  /\ \A i \in OfKind(RosterOp) :
       LET r     == signed[i]
           prior == Earlier(RosterOp, i)
       IN  /\ r.author = Creator
           /\ r.heads = {j \in prior : \A k \in prior : k <= j}
           /\ IF i = 1 THEN r.subject = Creator /\ r.role = "admin"
              ELSE r.subject # Creator /\ (r.kind # "remove" => r.role # "admin")

\* Every roster record made sense when it was made, so all of them apply in turn.
AppliesInv ==
  \A S \in {DOMAIN signed} :
    LET R == RosterOf(S)
    IN  \A n \in DOMAIN R.order : Applies(R.roles[n], signed[R.order[n]])

\* The records of one kind about a device.
About(kind, d) == {i \in OfKind({kind}) : signed[i].subject = d}

\* The members there are when record i is signed.
MembersAt(i) ==
  {Creator} \cup {m \in Devices : /\ \E j \in About("add", m) : j < i
                                  /\ \A j \in About("remove", m) : i <= j}

\* A device is added once, and removed after that.
MembersInv ==
  /\ \A i, j \in OfKind({"add"}) : signed[i].subject = signed[j].subject => i = j
  /\ \A i \in OfKind({"remove"}) : \E j \in About("add", signed[i].subject) : j < i

\* Epochs follow their removals, each higher than the last and for the members that
\* are left; a grant is of an earlier key to a device just added.
EpochsInv ==
  /\ \A e \in OfKind({"new"}) :
       /\ signed[e].author = Creator /\ signed[e].to = MembersAt(e)
       /\ signed[e].heads = {e - 1} /\ e - 1 \in OfKind(RosterOp)
       /\ \A f \in OfKind({"new"}) : f < e => signed[f].height < signed[e].height
  /\ \A g \in OfKind({"grant"}) :
       /\ signed[g].author = Creator
       /\ \E a \in OfKind({"add"}) : /\ signed[g].heads = {a} /\ signed[g].epoch < a
                                     /\ signed[g].to = {signed[a].subject}

\* A device's replica: on disk, open, and every copy of it.
Replicas(d) == {file[d], handle[d]} \cup copies[d]

\* Whoever has a replica was added, and has in it the grant of every earlier key.
GrantsInv ==
  \A d \in Devices \ {Creator} :
    \A X \in Replicas(d) \ {{}} :
      /\ About("add", d) # {}
      /\ \A a \in About("add", d) : \A e \in Earlier({"new"}, a) :
           \E g \in X \cap OfKind({"grant"}) :
             signed[g].heads = {a} /\ signed[g].epoch = e /\ signed[g].to = {d}
=============================================================================
