---------------------------- MODULE WorldDataProofs ----------------------------
(***************************************************************************)
(* Proofs about WorldData, for any number of overlapping requests, keys    *)
(* and states, any allowance and any number of days: the current state     *)
(* stays in the archive until a deletion is due, restores are applied      *)
(* once, what they give up is in a Backup, and pruning stops where it has  *)
(* to.                                                                     *)
(***************************************************************************)
EXTENDS WorldData, FiniteSetTheorems, TLAPS

-------------------------------------------------------------------------------
(* The inductive invariant. *)

\* A Backup that nothing prunes has this state.
Preserved(state, kept) == \E b \in kept : b.kind \in {"restore_point", "final"} /\ b.state = state

\* What a request keeps between its steps, for a row, the Backups and the history.
Sound(r, row, kept, over) ==
  /\ r.step # "idle" => r.key \in Keys
  /\ r.step \in {"read", "protected"} /\ r.current =>
       /\ r.seen = row.state /\ row.status = "sleeping"
       /\ r.op = "restore" => r.key \notin ToSet(row.applied)
  /\ r.step = "protected" =>
       /\ r.current
       /\ r.op = "restore" => r.target \in States
       /\ r.fresh /\ ~over => Preserved(row.state, kept)
CallInv == \A c \in Calls : Sound(call[c], world, backups, expired)

\* Until a deletion is due, states that are current or about to be are in the archive, and no
\* purge has begun.
ArchiveInv ==
  ~expired =>
    /\ world.state \in objects \cup {None}
    /\ session.step \in {"persisted", "backed_up"} => session.state \in objects
    /\ world.status # "gone"
    /\ world.status = "pending" => world.due # 0
    /\ maint.step \notin {"delete", "row"}

\* What was measured is still there, and what is to be pruned is excess.
PruneInv ==
  /\ maint.step = "prune" => grace = 0 /\ maint.toPrune <= Len(automatic)
  /\ ~expired /\ maint.step = "settle" /\ maint.excess > 0
       => StorageUsage(world.state) >= Allowance + maint.excess
  /\ ~expired /\ maint.step = "prune" /\ maint.toPrune > 0
       => StorageUsage(world.state) >= Allowance + maint.toPrune

TypeInv == TypeOK /\ IsFiniteSet(backups)

IInv == TypeInv /\ CallInv /\ ArchiveInv /\ RestoresApplyOnce /\ PruneInv

-------------------------------------------------------------------------------
(* Lemmas about requests. *)

LEMMA IdleIsSound ==
  /\ Idle \in Call
  /\ \A row, kept, over : Sound(Idle, row, kept, over)
BY DEF Idle, Call, Sound

\* A request whose row was written over is sound for any row.
LEMMA OutdatedIsSound ==
  ASSUME NEW r \in Call, NEW row, NEW kept, NEW over, Sound(r, row, kept, over)
  PROVE  /\ Outdated(r) \in Call
         /\ \A row2, kept2, over2 : Sound(Outdated(r), row2, kept2, over2)
<1>1. CASE r.step = "protected"
  BY <1>1, IdleIsSound DEF Outdated
<1>2. CASE r.step # "protected"
  <2>1. Outdated(r) = [r EXCEPT !.current = FALSE]
    BY <1>2 DEF Outdated
  <2> QED BY <1>2, <2>1 DEF Call, Sound
<1> QED BY <1>1, <1>2

\* More Backups, or days that pass, leave a request sound.
LEMMA SoundStays ==
  ASSUME NEW r \in Call, NEW row, NEW row2, NEW kept, NEW kept2, NEW over, NEW over2,
         Sound(r, row, kept, over), row2.state = row.state, row2.status = row.status,
         row2.applied = row.applied, kept \subseteq kept2 \/ over2, over => over2
  PROVE  Sound(r, row2, kept2, over2)
BY DEF Sound, Preserved

\* The row is written, and the request of the write, if it is of one, ends.
LEMMA WriteKeepsCalls ==
  ASSUME IInv,
         (\E row : Write(row)) \/ (\E c \in Calls : \E row : Save(c, row))
  PROVE  call' \in [Calls -> Call] /\ CallInv'
<1>1. \A k \in Calls : call[k] \in Call /\ Sound(call[k], world, backups, expired)
  BY DEF IInv, TypeInv, TypeOK, CallInv
<1>2. \A k \in Calls : /\ Outdated(call[k]) \in Call
                       /\ Sound(Outdated(call[k]), world', backups', expired')
  BY <1>1, OutdatedIsSound
<1>3. CASE \E row : Write(row)
  <2>1. call' = [k \in Calls |-> Outdated(call[k])]
    BY <1>3 DEF Write
  <2> QED BY <1>2, <2>1 DEF CallInv
<1>4. CASE \E c \in Calls : \E row : Save(c, row)
  <2>1. PICK c \in Calls : call' = [k \in Calls |-> IF k = c THEN Idle ELSE Outdated(call[k])]
    BY <1>4 DEF Save
  <2> QED BY <1>2, <2>1, IdleIsSound DEF CallInv
<1> QED BY <1>3, <1>4

\* The requests stay, or one of them moves, while the row stays but for its days.
LEMMA CallsStay ==
  ASSUME IInv, UNCHANGED call,
         world'.state = world.state, world'.status = world.status,
         world'.applied = world.applied, backups \subseteq backups' \/ expired',
         expired => expired'
  PROVE  CallInv'
<1>1. ASSUME NEW k \in Calls PROVE Sound(call[k], world', backups', expired')
  BY SoundStays DEF IInv, TypeInv, TypeOK, CallInv
<1> QED BY <1>1 DEF CallInv
LEMMA OneCallMoves ==
  ASSUME IInv, NEW c \in Calls, NEW r \in Call, call' = [call EXCEPT ![c] = r],
         UNCHANGED <<world, expired>>, backups \subseteq backups',
         Sound(r, world, backups', expired)
  PROVE  call' \in [Calls -> Call] /\ CallInv'
<1>1. call' \in [Calls -> Call]
  BY DEF IInv, TypeInv, TypeOK
<1>2. ASSUME NEW k \in Calls PROVE Sound(call'[k], world', backups', expired')
  <2>1. Sound(call[k], world, backups', expired)
    BY SoundStays DEF IInv, TypeInv, TypeOK, CallInv
  <2> QED BY <2>1 DEF IInv, TypeInv, TypeOK
<1> QED BY <1>1, <1>2 DEF CallInv

-------------------------------------------------------------------------------
(* Lemmas about the archive. *)

\* A Backup is created or found; either way it is there.
LEMMA BackupIsThere ==
  ASSUME IInv, NEW kind \in {"manual", "restore_point", "final"}, NEW key \in Keys, NEW state,
         CreateBackup(kind, key, state)
  PROVE  /\ backups' \subseteq Backup /\ IsFiniteSet(backups') /\ backups \subseteq backups'
         /\ automatic' = automatic
         /\ state \in objects
         /\ Existing(kind, key) = {} => \E b \in backups' : b.kind = kind /\ b.state = state
<1> DEFINE new == [kind |-> kind, key |-> key, state |-> state]
<1>1. state \in States /\ state \in objects /\ automatic' = automatic
  BY DEF CreateBackup, IInv, TypeInv, TypeOK
<1>2. new \in Backup /\ new.kind = kind /\ new.state = state
  BY <1>1 DEF Backup
<1>3. IsFiniteSet(backups) /\ backups \subseteq Backup
  BY DEF IInv, TypeInv, TypeOK
<1>4. CASE Existing(kind, key) # {}
  BY <1>1, <1>3, <1>4 DEF CreateBackup
<1>5. CASE Existing(kind, key) = {}
  <2>1. backups' = backups \cup {new}
    BY <1>5 DEF CreateBackup
  <2>2. IsFiniteSet(backups')
    BY <1>3, <2>1, FS_AddElement
  <2> QED BY <1>1, <1>2, <1>3, <2>1, <2>2
<1> QED BY <1>4, <1>5

\* Usage is a number, and does not fall while nothing is taken out of the archive.
LEMMA UsageIsNat ==
  ASSUME IsFiniteSet(backups), automatic \in Seq(States), NEW state
  PROVE  StorageUsage(state) \in Nat /\ Cardinality(backups) \in Nat /\ Len(automatic) \in Nat
BY FS_CardinalityType DEF StorageUsage
LEMMA UsageGrows ==
  ASSUME TypeInv, TypeInv', objects \subseteq objects', backups \subseteq backups',
         Len(automatic) <= Len(automatic'),
         world.state \in objects => world'.state \in objects'
  PROVE  /\ StorageUsage(world.state)' \in Nat /\ StorageUsage(world.state) \in Nat
         /\ StorageUsage(world.state) <= StorageUsage(world.state)'
<1>1. /\ IsFiniteSet(backups) /\ automatic \in Seq(States)
      /\ IsFiniteSet(backups') /\ automatic' \in Seq(States)
  BY DEF TypeInv, TypeOK
<1>2. /\ Cardinality(backups) \in Nat /\ Cardinality(backups') \in Nat
      /\ Cardinality(backups) <= Cardinality(backups')
  BY <1>1, FS_CardinalityType, FS_Subset
<1>3. Len(automatic) \in Nat /\ Len(automatic') \in Nat
  BY <1>1
<1> QED BY <1>2, <1>3 DEF StorageUsage

LEMMA BeyondIsNat ==
  ASSUME NEW used \in Nat
  PROVE  /\ Beyond(used) \in Nat
         /\ Beyond(used) > 0 => used = Allowance + Beyond(used)
BY WorldDataAssumption DEF Beyond

\* What is to be pruned is there while the archive only grows.
LEMMA PruneStays ==
  ASSUME TypeInv, TypeInv', PruneInv, UNCHANGED <<maint, grace, expired>>,
         objects \subseteq objects', backups \subseteq backups',
         Len(automatic) <= Len(automatic'),
         ~expired => (world.state \in objects => world'.state \in objects')
  PROVE  PruneInv'
<1>1. Len(automatic) \in Nat /\ Len(automatic') \in Nat
  BY DEF TypeInv, TypeOK
<1>2. maint.excess \in Nat /\ maint.toPrune \in Nat /\ Allowance \in Nat
  BY WorldDataAssumption DEF TypeInv, TypeOK, Maintenance
<1>3. CASE expired
  BY <1>1, <1>2, <1>3 DEF PruneInv
<1>4. CASE ~expired
  <2>1. /\ StorageUsage(world.state)' \in Nat /\ StorageUsage(world.state) \in Nat
        /\ StorageUsage(world.state) <= StorageUsage(world.state)'
    BY <1>4, UsageGrows
  <2>2. /\ maint.step = "prune" => grace = 0 /\ maint.toPrune <= Len(automatic')
    BY <1>1, <1>2 DEF PruneInv
  <2>3. ~expired /\ maint.step = "settle" /\ maint.excess > 0
         => StorageUsage(world.state)' >= Allowance + maint.excess
    BY <2>1, <1>2 DEF PruneInv
  <2>4. ~expired /\ maint.step = "prune" /\ maint.toPrune > 0
         => StorageUsage(world.state)' >= Allowance + maint.toPrune
    BY <2>1, <1>2 DEF PruneInv
  <2> QED BY <2>2, <2>3, <2>4 DEF PruneInv
<1> QED BY <1>3, <1>4

-------------------------------------------------------------------------------
(* Steps of requests and of sessions. *)

\* Requests move, and at most a Backup is created that nothing prunes.
LEMMA ArchiveGrows ==
  ASSUME IInv, call' \in [Calls -> Call], CallInv',
         backups \subseteq backups', backups' \subseteq Backup, IsFiniteSet(backups'),
         UNCHANGED <<world, objects, automatic, session, policy>>
  PROVE  IInv'
<1>1. TypeInv'
  BY DEF IInv, TypeInv, TypeOK, policy
<1>2. ArchiveInv' /\ RestoresApplyOnce'
  BY DEF IInv, ArchiveInv, RestoresApplyOnce, policy
<1>3. Len(automatic) <= Len(automatic')
  BY DEF IInv, TypeInv, TypeOK
<1>4. PruneInv'
  BY <1>1, <1>3, PruneStays DEF IInv, policy
<1> QED BY <1>1, <1>2, <1>4 DEF IInv

LEMMA RequestsMove ==
  ASSUME IInv, NEW c \in Calls, NEW key \in Keys,
         \/ PassGate(c, key) \/ Read(c, "restore", key) \/ Read(c, "delete", key)
         \/ ReadGated(c) \/ CallEnds(c)
  PROVE  IInv'
<1>1. /\ call[c] \in Call /\ Sound(call[c], world, backups, expired)
      /\ world.state \in States \cup {None} /\ IsFiniteSet(backups) /\ backups \subseteq Backup
  BY DEF IInv, TypeInv, TypeOK, CallInv, World
<1>2. SUFFICES ASSUME NEW r \in Call, call' = [call EXCEPT ![c] = r],
                      Sound(r, world, backups, expired),
                      UNCHANGED <<world, archive, session, policy>>
               PROVE  IInv'
  <2>1. CASE PassGate(c, key)
    <3> DEFINE r == [Idle EXCEPT !.step = "gated", !.op = "manual", !.key = key]
    <3>1. r \in Call /\ Sound(r, world, backups, expired)
      BY DEF Idle, Call, Operations, Sound
    <3> QED BY <2>1, <3>1, <1>2 DEF PassGate
  <2>2. ASSUME NEW op \in Operations, NEW k \in Keys, Snapshot(c, op, k) PROVE IInv'
    <3> DEFINE r == [Idle EXCEPT !.step = "read", !.op = op, !.key = k,
                                 !.seen = world.state, !.current = TRUE]
    <3>1. r \in Call
      BY <1>1 DEF Idle, Call
    <3>2. Sound(r, world, backups, expired)
      BY <2>2 DEF Idle, Sound, Snapshot, Admits
    <3> QED BY <2>2, <3>1, <3>2, <1>2 DEF Snapshot
  <2>3. CASE Read(c, "restore", key) \/ Read(c, "delete", key)
    BY <2>2, <2>3 DEF Read, Operations
  <2>4. CASE ReadGated(c)
    <3>1. call[c].op \in Operations \cup {None} /\ call[c].key \in Keys
      BY <1>1, <2>4 DEF Call, Sound, ReadGated
    <3>2. CASE call[c].op \in Operations
      BY <2>2, <2>4, <3>1, <3>2 DEF ReadGated
    <3>3. CASE call[c].op = None
      <4> DEFINE r == [Idle EXCEPT !.step = "read", !.op = call[c].op, !.key = call[c].key,
                                   !.seen = world.state, !.current = TRUE]
      <4>1. r \in Call
        BY <1>1, <3>1 DEF Idle, Call
      <4>2. Sound(r, world, backups, expired)
        BY <2>4, <3>1 DEF Idle, Sound, Snapshot, Admits, ReadGated
      <4> QED BY <2>4, <4>1, <4>2, <1>2 DEF Snapshot, ReadGated
    <3> QED BY <3>1, <3>2, <3>3
  <2>5. CASE CallEnds(c)
    BY <2>5, <1>2, IdleIsSound DEF CallEnds
  <2> QED BY <2>1, <2>3, <2>4, <2>5
<1>3. call' \in [Calls -> Call] /\ CallInv'
  BY <1>1, <1>2, OneCallMoves DEF policy, archive
<1> QED BY <1>1, <1>2, <1>3, ArchiveGrows DEF archive

\* Also a request that saw an older row creates its Backup; only a current one goes on.
LEMMA BackupsAreCreated ==
  ASSUME IInv, NEW c \in Calls,
         CreateManualBackup(c) \/ CreateRestorePoint(c) \/ CreateFinalBackup(c)
  PROVE  IInv'
<1> DEFINE me == call[c]
<1>1. me \in Call /\ Sound(me, world, backups, expired)
  BY DEF IInv, TypeInv, TypeOK, CallInv
<1>2. CASE CreateManualBackup(c)
  <2>1. me.key \in Keys
    BY <1>1, <1>2 DEF Sound, CreateManualBackup, At
  <2>2. backups' \subseteq Backup /\ IsFiniteSet(backups') /\ backups \subseteq backups'
           /\ automatic' = automatic
    BY <1>2, <2>1, BackupIsThere DEF CreateManualBackup
  <2>3. call' \in [Calls -> Call] /\ CallInv'
    BY <1>2, <2>2, OneCallMoves, IdleIsSound DEF CreateManualBackup, policy
  <2> QED BY <1>2, <2>2, <2>3, ArchiveGrows DEF CreateManualBackup
<1>3. ASSUME NEW kind \in {"restore_point", "final"}, NEW target \in States \cup {None},
             Protect(c, kind, target), me.step = "read",
             me.op = "restore" => target \in States
      PROVE  IInv'
  <2>1. me.key \in Keys /\ CreateBackup(kind, me.key, me.seen)
    BY <1>1, <1>3 DEF Sound, Protect
  <2>2. /\ backups' \subseteq Backup /\ IsFiniteSet(backups') /\ backups \subseteq backups'
        /\ automatic' = automatic
        /\ Existing(kind, me.key) = {} => \E b \in backups' : b.kind = kind /\ b.state = me.seen
    BY <2>1, BackupIsThere
  <2> DEFINE next == [me EXCEPT !.step = "protected", !.target = target,
                                !.fresh = Existing(kind, me.key) = {}]
  <2>3. CASE ~me.current
    <3>1. call' = [call EXCEPT ![c] = Idle]
      BY <1>3, <2>3 DEF Protect
    <3>2. call' \in [Calls -> Call] /\ CallInv'
      BY <1>3, <2>2, <3>1, OneCallMoves, IdleIsSound DEF Protect, policy
    <3> QED BY <1>3, <2>2, <3>2, ArchiveGrows DEF Protect
  <2>4. CASE me.current
    <3>1. call' = [call EXCEPT ![c] = next]
      BY <1>3, <2>4 DEF Protect
    <3>2. next \in Call
      BY <1>1 DEF Call
    <3>3. me.seen = world.state /\ next.fresh => Preserved(world.state, backups')
      BY <2>2, <1>1 DEF Preserved, Call
    <3>4. Sound(next, world, backups', expired)
      BY <1>1, <1>3, <2>1, <2>4, <3>3 DEF Sound, Call
    <3>5. call' \in [Calls -> Call] /\ CallInv'
      BY <1>3, <2>2, <3>1, <3>2, <3>4, OneCallMoves DEF Protect, policy
    <3> QED BY <1>3, <2>2, <3>5, ArchiveGrows DEF Protect
  <2> QED BY <2>3, <2>4
<1>4. CASE CreateRestorePoint(c)
  <2>1. PICK s \in {b.state : b \in backups} \cup ToSet(automatic) : Protect(c, "restore_point", s)
    BY <1>4 DEF CreateRestorePoint
  <2>2. \A b \in backups : b.state \in States
    BY DEF IInv, TypeInv, TypeOK, Backup
  <2>3. ToSet(automatic) \subseteq States
    BY DEF IInv, TypeInv, TypeOK, ToSet
  <2> QED BY <1>3, <1>4, <2>1, <2>2, <2>3 DEF CreateRestorePoint, At
<1>5. CASE CreateFinalBackup(c)
  BY <1>3, <1>5 DEF CreateFinalBackup, At
<1> QED BY <1>2, <1>4, <1>5

\* The row is written, with a state that is in the archive and a status that is in order.
LEMMA RowIsWritten ==
  ASSUME IInv, (\E row : Write(row)) \/ (\E c \in Calls : \E row : Save(c, row)),
         world' \in World, UNCHANGED <<archive, policy>>,
         session' \in [step: {"none", "awake", "persisted", "backed_up"}, state: States \cup {None}],
         session'.step \in {"persisted", "backed_up"} => session' = session,
         world'.status = "awake" => session'.step # "none",
         ~expired => /\ world'.state \in objects \cup {None}
                     /\ world.state \in objects => world'.state \in objects
                     /\ world'.status # "gone"
                     /\ world'.status = "pending" => world'.due # 0,
         RestoresApplyOnce'
  PROVE  IInv'
<1>1. call' \in [Calls -> Call] /\ CallInv'
  BY WriteKeepsCalls
<1>2. TypeInv'
  BY <1>1 DEF IInv, TypeInv, TypeOK, policy, archive
<1>3. ArchiveInv'
  BY DEF IInv, ArchiveInv, policy, archive
<1>4. Len(automatic) <= Len(automatic')
  BY DEF IInv, TypeInv, TypeOK, archive
<1>5. PruneInv'
  BY <1>2, <1>4, PruneStays DEF IInv, policy, archive
<1> QED BY <1>1, <1>2, <1>3, <1>5 DEF IInv

\* A row with a key more than it had keeps its keys apart.
LEMMA KeysStayApart ==
  ASSUME NEW applied \in Seq(Keys), NEW key \in Keys, key \notin ToSet(applied),
         \A i, j \in DOMAIN applied : applied[i] = applied[j] => i = j
  PROVE  LET more == Append(applied, key)
         IN  /\ more \in Seq(Keys)
             /\ \A i, j \in DOMAIN more : more[i] = more[j] => i = j
<1> DEFINE more == Append(applied, key)
<1>1. /\ more \in Seq(Keys) /\ Len(more) = Len(applied) + 1 /\ Len(applied) \in Nat
      /\ \A i \in 1..Len(applied) : more[i] = applied[i] /\ applied[i] # key
      /\ more[Len(applied) + 1] = key
      /\ DOMAIN more = 1..(Len(applied) + 1) /\ DOMAIN applied = 1..Len(applied)
  BY DEF ToSet
<1> QED BY <1>1

LEMMA RequestsSave ==
  ASSUME IInv, NEW c \in Calls, RestoreBackup(c) \/ ScheduleDeletion(c)
  PROVE  IInv'
<1>1. /\ call[c] \in Call /\ Sound(call[c], world, backups, expired) /\ world \in World
      /\ objects \subseteq States
  BY DEF IInv, TypeInv, TypeOK, CallInv
<1>2. /\ call[c].step = "protected" /\ call[c].current /\ call[c].key \in Keys
      /\ world.status = "sleeping"
  BY <1>1 DEF RestoreBackup, ScheduleDeletion, At, Sound
<1>3. /\ session \in [step: {"none", "awake", "persisted", "backed_up"}, state: States \cup {None}]
      /\ ~expired => world.state \in objects \cup {None} /\ (world.status = "pending" => world.due # 0)
      /\ RestoresApplyOnce
  BY DEF IInv, TypeInv, TypeOK, ArchiveInv
<1>4. CASE RestoreBackup(c)
  <2> DEFINE more == Append(world.applied, call[c].key)
             row == [world EXCEPT !.state = call[c].target, !.applied = more]
  <2>1. /\ world' = row /\ Save(c, row) /\ call[c].target \in objects
        /\ UNCHANGED <<archive, session, policy>> /\ call[c].op = "restore"
    BY <1>4 DEF RestoreBackup, Save, At
  <2>2. world.applied \in Seq(Keys) /\ call[c].key \notin ToSet(world.applied)
    BY <1>1, <1>2, <2>1 DEF World, Sound
  <2>3. more \in Seq(Keys) /\ \A i, j \in DOMAIN more : more[i] = more[j] => i = j
    BY <1>2, <1>3, <2>2, KeysStayApart DEF RestoresApplyOnce
  <2> HIDE DEF more
  <2>4. row \in World /\ row.applied = more /\ row.status = "sleeping" /\ row.state = call[c].target
    BY <1>1, <1>2, <2>1, <2>3 DEF World
  <2>5. RestoresApplyOnce'
    BY <2>1, <2>3, <2>4 DEF RestoresApplyOnce
  <2> HIDE DEF row
  <2> QED BY <1>3, <2>1, <2>4, <2>5, RowIsWritten
<1>5. CASE ScheduleDeletion(c)
  <2> DEFINE row == [world EXCEPT !.status = "pending", !.due = DeletionDays]
  <2>1. world' = row /\ Save(c, row) /\ UNCHANGED <<archive, session, policy>>
    BY <1>5 DEF ScheduleDeletion, Save
  <2>2. /\ row \in World /\ row.applied = world.applied /\ row.status = "pending"
        /\ row.state = world.state /\ row.due = DeletionDays /\ DeletionDays # 0
    <3>1. DeletionDays \in 0..DeletionDays /\ DeletionDays # 0
      BY WorldDataAssumption
    <3> QED BY <1>1, <3>1 DEF World
  <2>3. RestoresApplyOnce'
    BY <1>3, <2>1, <2>2 DEF RestoresApplyOnce
  <2> HIDE DEF row
  <2> QED BY <1>3, <2>1, <2>2, <2>3, RowIsWritten
<1> QED BY <1>4, <1>5

\* Cancellations, wakes, sleeps and failures: the row gets a status, and a state that is stored.
LEMMA StatusChanges ==
  ASSUME IInv, CancelDeletion \/ WakeWorld \/ FallAsleep \/ FailWakePreflight
  PROVE  IInv'
<1>1. /\ world \in World /\ objects \subseteq States /\ None \notin States
      /\ session \in [step: {"none", "awake", "persisted", "backed_up"}, state: States \cup {None}]
      /\ session.step \in {"persisted", "backed_up"} => session.state \in States
      /\ world.status = "awake" => session.step # "none"
      /\ RestoresApplyOnce
      /\ ~expired => /\ world.state \in objects \cup {None}
                     /\ session.step \in {"persisted", "backed_up"} => session.state \in objects
  BY WorldDataAssumption DEF IInv, TypeInv, TypeOK, ArchiveInv
<1> DEFINE row(status, state, due) ==
      [world EXCEPT !.status = status, !.state = state, !.due = due]
<1>2. ASSUME NEW status \in {"sleeping", "awake"}, NEW state \in States \cup {None},
             NEW due \in {world.due, None}, Write(row(status, state, due)),
             UNCHANGED <<archive, policy>>,
             session' \in [step: {"none", "awake"}, state: {None}] \/ session' = session,
             status = "awake" => session'.step # "none",
             ~expired => (state \in objects \/ state = world.state)
      PROVE  IInv'
  <2>1. /\ world' = row(status, state, due) /\ world' \in World /\ world'.status = status
        /\ world'.state = state /\ world'.applied = world.applied
    BY <1>1, <1>2 DEF Write, World
  <2>2. RestoresApplyOnce'
    BY <1>1, <2>1 DEF RestoresApplyOnce
  <2>3. /\ session' \in [step: {"none", "awake", "persisted", "backed_up"}, state: States \cup {None}]
        /\ session'.step \in {"persisted", "backed_up"} => session' = session
    BY <1>1, <1>2
  <2>4. \E r : Write(r)
    BY <1>2
  <2> QED BY <1>1, <1>2, <2>1, <2>2, <2>3, <2>4, RowIsWritten
<1>3. CASE CancelDeletion
  <2>1. /\ Write(row("sleeping", world.state, None)) /\ session' = session
        /\ UNCHANGED <<archive, policy>> /\ world.state \in States \cup {None}
    BY <1>1, <1>3 DEF CancelDeletion, World
  <2> QED BY <1>2, <2>1
<1>4. CASE WakeWorld
  <2>1. /\ Write(row("awake", world.state, world.due)) /\ world.state \in States \cup {None}
        /\ session' = [step |-> "awake", state |-> None] /\ UNCHANGED <<archive, policy>>
    BY <1>1, <1>4 DEF WakeWorld, World
  <2> QED BY <1>2, <2>1
<1>5. CASE FallAsleep
  <2>1. /\ Write(row("sleeping", session.state, world.due)) /\ session.state \in States
        /\ ~expired => session.state \in objects
        /\ session' = [step |-> "none", state |-> None] /\ UNCHANGED <<archive, policy>>
    BY <1>1, <1>5 DEF FallAsleep, World
  <2> QED BY <1>2, <2>1
<1>6. CASE FailWakePreflight
  <2>1. /\ Write(row("sleeping", world.state, world.due)) /\ world.state \in States \cup {None}
        /\ session' = [step |-> "none", state |-> None] /\ UNCHANGED <<archive, policy>>
    BY <1>1, <1>6 DEF FailWakePreflight, World
  <2> QED BY <1>2, <2>1
<1> QED BY <1>3, <1>4, <1>5, <1>6

\* A safe sleep adds to the archive.
LEMMA SleepStores ==
  ASSUME IInv, (\E s \in States : PersistState(s)) \/ CreateAutomaticBackup
  PROVE  IInv'
<1>1. /\ TypeOK /\ IsFiniteSet(backups) /\ ArchiveInv /\ PruneInv /\ RestoresApplyOnce /\ CallInv
  BY DEF IInv, TypeInv
<1>2. CASE \E s \in States : PersistState(s)
  <2>1. PICK s \in States : PersistState(s)
    BY <1>2
  <2>2. TypeInv' /\ objects \subseteq objects'
    BY <1>1, <2>1 DEF TypeInv, TypeOK, PersistState, policy
  <2>3. ArchiveInv' /\ RestoresApplyOnce'
    BY <1>1, <2>1 DEF ArchiveInv, RestoresApplyOnce, PersistState, policy
  <2>4. CallInv'
    BY <2>1, CallsStay DEF PersistState, policy
  <2>5. Len(automatic) <= Len(automatic')
    BY <1>1, <2>1 DEF PersistState, TypeOK
  <2>6. PruneInv'
    BY <1>1, <2>1, <2>2, <2>5, PruneStays DEF PersistState, policy, TypeInv
  <2> QED BY <2>2, <2>3, <2>4, <2>6 DEF IInv
<1>3. CASE CreateAutomaticBackup
  <2>1. /\ automatic' = Append(automatic, session.state) /\ session.state \in States
        /\ backups' = backups /\ UNCHANGED <<world, objects, policy, call>>
        /\ session' = [session EXCEPT !.step = "backed_up"] /\ session.step = "persisted"
    BY <1>1, <1>3 DEF CreateAutomaticBackup, CreateAutomatic, TypeOK
  <2>2. /\ automatic' \in Seq(States) /\ Len(automatic') = Len(automatic) + 1
        /\ Len(automatic) \in Nat
    BY <1>1, <2>1 DEF TypeOK
  <2>3. TypeInv'
    BY <1>1, <2>1, <2>2 DEF TypeInv, TypeOK, policy
  <2>4. ArchiveInv' /\ RestoresApplyOnce'
    BY <1>1, <2>1 DEF ArchiveInv, RestoresApplyOnce, policy, TypeOK
  <2>5. CallInv'
    BY <2>1, CallsStay DEF policy
  <2>6. PruneInv'
    BY <1>1, <2>1, <2>2, <2>3, PruneStays DEF policy, TypeInv
  <2> QED BY <2>3, <2>4, <2>5, <2>6 DEF IInv
<1> QED BY <1>2, <1>3

-------------------------------------------------------------------------------
(* Steps of the maintenance. *)

LEMMA MaintenanceMoves ==
  ASSUME IInv, UNCHANGED <<world, archive, session, storage, expired, call>>,
         maint' \in Maintenance, grace' \in 0..GraceDays \cup {None},
         expired \/ maint'.step \notin {"delete", "row"}
  PROVE  TypeInv' /\ CallInv' /\ ArchiveInv' /\ RestoresApplyOnce'
<1>1. TypeInv'
  BY DEF IInv, TypeInv, TypeOK, archive
<1>2. CallInv'
  BY CallsStay DEF archive
<1>3. ArchiveInv' /\ RestoresApplyOnce'
  BY DEF IInv, ArchiveInv, RestoresApplyOnce, archive
<1> QED BY <1>1, <1>2, <1>3

\* What the types give, with the constants.
LEMMA MaintenanceTypes ==
  ASSUME IInv
  PROVE  /\ maint \in Maintenance /\ grace \in 0..GraceDays \cup {None}
         /\ world \in World /\ GraceDays \in Nat \ {0} /\ None \notin Nat /\ Allowance \in Nat
         /\ AtRest \in Maintenance /\ Len(automatic) \in Nat
         /\ GraceDays \in 0..GraceDays
BY WorldDataAssumption DEF IInv, TypeInv, TypeOK, AtRest, Maintenance

LEMMA MaintenanceStarts ==
  ASSUME IInv, NEW days \in {0, 1}, MaintainData(days)
  PROVE  IInv'
<1>1. /\ TypeOK /\ IsFiniteSet(backups) /\ RestoresApplyOnce /\ ArchiveInv /\ PruneInv
      /\ maint \in Maintenance /\ grace \in 0..GraceDays \cup {None} /\ world \in World
      /\ GraceDays \in Nat
  BY MaintenanceTypes DEF IInv, TypeInv
<1>2. DeletionDays \in Nat /\ None \notin Nat
  BY WorldDataAssumption
<1>3. maint' \in Maintenance /\ maint'.step \in {"purge", "measure"}
  BY <1>1 DEF MaintainData, MaintGoTo, Maintenance
<1>4. /\ UNCHANGED <<archive, session, storage, call>>
      /\ world' \in World /\ world'.state = world.state /\ world'.status = world.status
      /\ world'.applied = world.applied
      /\ grace' \in 0..GraceDays \cup {None}
      /\ expired' \in BOOLEAN /\ (expired => expired')
      /\ ~expired' => (world'.due = world.due \/ world'.due # 0)
  <2>1. UNCHANGED <<archive, session, storage, call>>
    BY DEF MaintainData
  <2>2. CASE days = 0
    BY <1>1, <2>1, <2>2 DEF MaintainData, TypeOK
  <2>3. CASE days = 1
    <3>1. /\ world' = [world EXCEPT !.due = Sooner(world.due)] /\ grace' = Sooner(grace)
          /\ expired' = (expired \/ Sooner(world.due) = 0)
      BY <2>3 DEF MaintainData
    <3>2. Sooner(grace) \in 0..GraceDays \cup {None}
      BY <1>1, <1>2 DEF Sooner
    <3>3. Sooner(world.due) \in 0..DeletionDays \cup {None}
      BY <1>1, <1>2 DEF Sooner, World
    <3>4. /\ world' \in World /\ world'.state = world.state /\ world'.status = world.status
          /\ world'.applied = world.applied /\ world'.due = Sooner(world.due)
      BY <1>1, <3>1, <3>3 DEF World
    <3>5. expired' \in BOOLEAN /\ (expired => expired') /\ (~expired' => Sooner(world.due) # 0)
      BY <1>1, <3>1 DEF TypeOK
    <3> QED BY <2>1, <3>1, <3>2, <3>4, <3>5
  <2> QED BY <2>2, <2>3
<1>5. TypeInv'
  BY <1>1, <1>3, <1>4 DEF TypeInv, TypeOK, archive
<1>6. CallInv'
  BY <1>4, CallsStay DEF archive
<1>7. ArchiveInv' /\ RestoresApplyOnce'
  BY <1>1, <1>3, <1>4 DEF ArchiveInv, RestoresApplyOnce, archive
<1>8. PruneInv'
  BY <1>3 DEF PruneInv
<1> QED BY <1>5, <1>6, <1>7, <1>8 DEF IInv

\* A purge begins only when the deletion is due, so that it is one that has expired.
LEMMA PurgeSteps ==
  ASSUME IInv, FindDue \/ DeleteWorldData \/ DeleteRow
  PROVE  IInv'
<1>1. /\ TypeOK /\ IsFiniteSet(backups) /\ RestoresApplyOnce /\ ArchiveInv /\ PruneInv
      /\ maint \in Maintenance /\ grace \in 0..GraceDays \cup {None} /\ world \in World
  BY MaintenanceTypes DEF IInv, TypeInv
<1>2. CASE FindDue
  <2>1. /\ maint' \in Maintenance /\ maint'.step \in {"delete", "measure"}
        /\ maint'.step = "delete" => expired
    BY <1>1, <1>2 DEF FindDue, MaintGoTo, Maintenance, ArchiveInv
  <2>2. TypeInv' /\ CallInv' /\ ArchiveInv' /\ RestoresApplyOnce'
    BY <1>1, <1>2, <2>1, MaintenanceMoves DEF FindDue
  <2>3. PruneInv'
    BY <2>1 DEF PruneInv
  <2> QED BY <2>2, <2>3 DEF IInv
<1>3. CASE DeleteWorldData
  <2>1. expired /\ expired'
    BY <1>1, <1>3 DEF DeleteWorldData, ArchiveInv
  <2>2. maint' \in Maintenance /\ maint'.step = "row"
    BY <1>1, <1>3 DEF DeleteWorldData, MaintGoTo, Maintenance
  <2>3. IsFiniteSet({}) /\ <<>> \in Seq(States)
    BY FS_EmptySet
  <2>4. TypeInv'
    BY <1>1, <1>3, <2>1, <2>2, <2>3 DEF TypeInv, TypeOK, DeleteWorldData
  <2>5. CallInv'
    BY <1>3, <2>1, CallsStay DEF DeleteWorldData
  <2>6. ArchiveInv' /\ RestoresApplyOnce' /\ PruneInv'
    BY <1>1, <1>3, <2>1, <2>2 DEF ArchiveInv, RestoresApplyOnce, PruneInv, DeleteWorldData
  <2> QED BY <2>4, <2>5, <2>6 DEF IInv
<1>4. CASE DeleteRow
  <2>1. expired /\ expired'
    BY <1>1, <1>4 DEF DeleteRow, ArchiveInv
  <2>2. maint' \in Maintenance /\ maint'.step = "measure"
    BY <1>1, <1>4 DEF DeleteRow, MaintGoTo, Maintenance
  <2>3. /\ world' \in World /\ world'.status = "gone" /\ world'.applied = <<>>
        /\ call' \in [Calls -> Call] /\ CallInv'
    <3> DEFINE row == [NewWorld EXCEPT !.status = "gone"]
    <3>1. Write(row)
      BY <1>4 DEF DeleteRow
    <3>2. /\ row = [status |-> "gone", state |-> None, applied |-> <<>>, due |-> None]
          /\ <<>> \in Seq(Keys)
      BY DEF NewWorld
    <3>3. row \in World /\ row.status = "gone" /\ row.applied = <<>>
      BY <3>2 DEF World
    <3>4. world' = row
      BY <3>1 DEF Write
    <3>5. call' \in [Calls -> Call] /\ CallInv'
      BY <3>1, WriteKeepsCalls
    <3> QED BY <3>3, <3>4, <3>5
  <2>4. TypeInv'
    BY <1>1, <1>4, <2>1, <2>2, <2>3 DEF TypeInv, TypeOK, DeleteRow, archive
  <2>5. ArchiveInv' /\ RestoresApplyOnce' /\ PruneInv'
    BY <2>1, <2>2, <2>3 DEF ArchiveInv, RestoresApplyOnce, PruneInv
  <2> QED BY <2>3, <2>4, <2>5 DEF IInv
<1> QED BY <1>2, <1>3, <1>4

LEMMA StorageSteps ==
  ASSUME IInv, \/ Measure \/ EndGrace \/ RunGrace \/ MeasurePruned \/ Report
               \/ ChargeStorage \/ LeaveUnfunded \/ MaintenanceStops
  PROVE  IInv'
<1>1. /\ maint \in Maintenance /\ grace \in 0..GraceDays \cup {None} /\ world \in World
      /\ GraceDays \in 0..GraceDays /\ AtRest \in Maintenance /\ PruneInv
      /\ TypeOK /\ IsFiniteSet(backups)
  BY MaintenanceTypes DEF IInv, TypeInv
<1>2. \A state : StorageUsage(state) \in Nat
  BY <1>1, UsageIsNat DEF TypeOK
<1>3. \A state : Beyond(StorageUsage(state)) \in Nat
  BY <1>2, BeyondIsNat
<1>4. CASE Measure
  <2>1. /\ maint' = [maint EXCEPT !.step = "settle", !.state = world.state,
                                  !.excess = StorageExcess]
        /\ UNCHANGED <<world, archive, session, grace, storage, expired, call>>
    BY <1>4 DEF Measure
  <2>2. /\ StorageExcess \in Nat
        /\ StorageExcess > 0 => StorageUsage(world.state) = Allowance + StorageExcess
    BY <1>2, BeyondIsNat DEF StorageExcess
  <2>3. maint' \in Maintenance /\ maint'.step = "settle" /\ maint'.excess = StorageExcess
    BY <1>1, <2>1, <2>2 DEF Maintenance, World
  <2>4. TypeInv' /\ CallInv' /\ ArchiveInv' /\ RestoresApplyOnce'
    BY <1>1, <2>1, <2>3, MaintenanceMoves
  <2>5. StorageUsage(world.state)' = StorageUsage(world.state)
    BY <2>1 DEF StorageUsage, archive
  <2>6. PruneInv'
    <3>1. Allowance \in Nat
      BY WorldDataAssumption
    <3> QED BY <1>2, <2>2, <2>3, <2>5, <3>1 DEF PruneInv
  <2> QED BY <2>4, <2>6 DEF IInv
<1>5. ASSUME maint' \in Maintenance, maint'.step \notin {"settle", "prune", "delete", "row"},
             grace' \in 0..GraceDays \cup {None},
             UNCHANGED <<world, archive, session, expired, call>>,
             storage' \in [blocked: BOOLEAN, wakeBlocked: BOOLEAN]
      PROVE  IInv'
  <2>1. TypeInv'
    BY <1>1, <1>5 DEF TypeInv, TypeOK, archive
  <2>2. CallInv'
    BY <1>5, CallsStay DEF archive
  <2>3. ArchiveInv' /\ RestoresApplyOnce'
    BY <1>5 DEF IInv, ArchiveInv, RestoresApplyOnce, archive
  <2>4. PruneInv'
    BY <1>5 DEF PruneInv
  <2> QED BY <2>1, <2>2, <2>3, <2>4 DEF IInv
<1>6. storage \in [blocked: BOOLEAN, wakeBlocked: BOOLEAN]
  BY <1>1 DEF TypeOK
<1>7. CASE EndGrace \/ RunGrace
  BY <1>1, <1>5, <1>6, <1>7 DEF EndGrace, RunGrace, MaintGoTo, Maintenance
<1>8. CASE MeasurePruned
  <2>1. /\ maint' = [maint EXCEPT !.step = "report", !.excess = Beyond(StorageUsage(maint.state))]
        /\ grace' \in {grace, None}
        /\ UNCHANGED <<world, archive, session, storage, expired, call>>
    BY <1>8 DEF MeasurePruned
  <2>2. maint' \in Maintenance /\ maint'.step = "report"
    BY <1>1, <1>3, <2>1 DEF Maintenance
  <2> QED BY <1>1, <1>5, <1>6, <2>1, <2>2
<1>9. CASE Report
  <2>1. maint' \in Maintenance /\ maint'.step \in {"idle", "charge"}
    BY <1>1, <1>9 DEF Report, MaintenanceEnds, AtRest, Maintenance
  <2>2. storage' \in [blocked: BOOLEAN, wakeBlocked: BOOLEAN]
    BY <1>9 DEF Report
  <2> QED BY <1>1, <1>5, <1>9, <2>1, <2>2 DEF Report
<1>10. CASE ChargeStorage \/ LeaveUnfunded \/ MaintenanceStops
  <2>1. maint' \in Maintenance /\ maint'.step \in {"idle", "measure", "stopped"}
    BY <1>1, <1>10 DEF ChargeStorage, LeaveUnfunded, MaintenanceStops, MaintenanceEnds, AtRest, Maintenance
  <2> QED BY <1>1, <1>5, <1>6, <1>10, <2>1 DEF ChargeStorage, LeaveUnfunded, MaintenanceStops
<1> QED BY <1>4, <1>7, <1>8, <1>9, <1>10

\* A Backup that is pruned was part of the excess.
LEMMA PruneSteps ==
  ASSUME IInv, ChoosePruned \/ PruneOldestAutomatic
  PROVE  IInv'
<1>1. /\ maint \in Maintenance /\ grace \in 0..GraceDays \cup {None} /\ PruneInv
      /\ TypeOK /\ IsFiniteSet(backups) /\ Allowance \in Nat /\ Len(automatic) \in Nat
      /\ automatic \in Seq(States) /\ Cardinality(backups) \in Nat
  BY MaintenanceTypes, FS_CardinalityType DEF IInv, TypeInv, TypeOK
<1>2. StorageUsage(world.state) \in Nat
  BY <1>1, UsageIsNat
<1>3. CASE ChoosePruned
  <2> DEFINE n == BackupsToPrune(Len(automatic))
  <2>1. /\ maint' = [maint EXCEPT !.step = "prune", !.toPrune = n]
        /\ UNCHANGED <<world, archive, session, grace, storage, expired, call>>
        /\ grace = 0 /\ maint.step = "settle" /\ maint.excess # 0
    BY <1>3 DEF ChoosePruned, Relieved
  <2>2. n \in Nat /\ n <= Len(automatic) /\ n <= maint.excess /\ maint.excess \in Nat
    BY <1>1 DEF BackupsToPrune, Lesser, Maintenance
  <2>3. maint' \in Maintenance /\ maint'.step = "prune" /\ maint'.toPrune = n
    BY <1>1, <2>1, <2>2 DEF Maintenance
  <2>4. TypeInv' /\ CallInv' /\ ArchiveInv' /\ RestoresApplyOnce'
    BY <1>1, <2>1, <2>3, MaintenanceMoves
  <2>5. StorageUsage(world.state)' = StorageUsage(world.state) /\ automatic' = automatic
    BY <2>1 DEF StorageUsage, archive
  <2> HIDE DEF n
  <2>6. PruneInv'
    BY <1>1, <1>2, <2>1, <2>2, <2>3, <2>5 DEF PruneInv
  <2> QED BY <2>4, <2>6 DEF IInv
<1>4. CASE PruneOldestAutomatic
  <2>1. /\ maint.step = "prune" /\ maint.toPrune > 0 /\ automatic' = Tail(automatic)
        /\ maint' = [maint EXCEPT !.toPrune = maint.toPrune - 1]
        /\ UNCHANGED <<world, objects, backups, session, grace, storage, expired, call>>
    BY <1>4 DEF PruneOldestAutomatic
  <2>2. /\ grace = 0 /\ maint.toPrune \in Nat /\ maint.toPrune <= Len(automatic)
        /\ ~expired => StorageUsage(world.state) >= Allowance + maint.toPrune
    BY <1>1, <2>1 DEF PruneInv, Maintenance
  <2>3. automatic # <<>> /\ Len(automatic') = Len(automatic) - 1 /\ automatic' \in Seq(States)
    BY <1>1, <2>1, <2>2
  <2>4. maint' \in Maintenance /\ maint'.step = "prune" /\ maint'.toPrune = maint.toPrune - 1
    BY <1>1, <2>1, <2>2 DEF Maintenance
  <2>5. TypeInv'
    BY <1>1, <2>1, <2>3, <2>4 DEF TypeInv, TypeOK
  <2>6. CallInv'
    BY <2>1, CallsStay
  <2>7. ArchiveInv' /\ RestoresApplyOnce'
    BY <2>1, <2>4 DEF IInv, ArchiveInv, RestoresApplyOnce
  <2>8. StorageUsage(world.state)' = StorageUsage(world.state) - 1
    BY <1>1, <2>1, <2>3 DEF StorageUsage
  <2>9. PruneInv'
    BY <1>1, <1>2, <2>1, <2>2, <2>3, <2>4, <2>8 DEF PruneInv
  <2> QED BY <2>5, <2>6, <2>7, <2>9 DEF IInv
<1> QED BY <1>3, <1>4

-------------------------------------------------------------------------------
(* The invariant. *)

LEMMA Initially == Init => IInv
<1> SUFFICES ASSUME Init PROVE IInv
  OBVIOUS
<1>1. IsFiniteSet({}) /\ <<>> \in Seq(States) /\ <<>> \in Seq(Keys)
  BY FS_EmptySet
<1>2. world \in World /\ maint \in Maintenance
  BY <1>1 DEF Init, NewWorld, World, AtRest, Maintenance
<1>3. TypeInv
  BY <1>1, <1>2, IdleIsSound DEF Init, TypeInv, TypeOK, NewWorld
<1>4. CallInv
  BY IdleIsSound DEF Init, CallInv
<1>5. ArchiveInv /\ RestoresApplyOnce /\ PruneInv
  BY DEF Init, ArchiveInv, RestoresApplyOnce, PruneInv, NewWorld, AtRest
<1> QED BY <1>3, <1>4, <1>5 DEF IInv

LEMMA Inductive == IInv /\ [Next]_vars => IInv'
<1> SUFFICES ASSUME IInv, [Next]_vars PROVE IInv'
  OBVIOUS
<1>1. CASE UNCHANGED vars
  BY <1>1, FS_CardinalityType DEF IInv, TypeInv, TypeOK, CallInv, Sound, Preserved, ArchiveInv,
       RestoresApplyOnce, PruneInv, StorageUsage, vars, archive, policy
<1>2. CASE RequestsNext
  <2>1. CASE CancelDeletion \/ WakeWorld
    BY <2>1, StatusChanges
  <2>2. ASSUME NEW c \in Calls, NEW key \in Keys,
               PassGate(c, key) \/ Read(c, "restore", key) \/ Read(c, "delete", key)
        PROVE  IInv'
    BY <2>2, RequestsMove
  <2>3. ASSUME NEW c \in Calls, ReadGated(c) \/ CallEnds(c) PROVE IInv'
    <3>1. call[c] \in Call /\ Sound(call[c], world, backups, expired)
      BY DEF IInv, TypeInv, TypeOK, CallInv
    <3>2. call[c].key \in Keys
      BY <2>3, <3>1 DEF Sound, ReadGated, CallEnds
    <3> QED BY <2>3, <3>2, RequestsMove
  <2>4. ASSUME NEW c \in Calls,
               \/ CreateManualBackup(c) \/ CreateRestorePoint(c) \/ CreateFinalBackup(c)
               \/ RestoreBackup(c) \/ ScheduleDeletion(c)
        PROVE  IInv'
    BY <2>4, BackupsAreCreated, RequestsSave
  <2> QED BY <1>2, <2>1, <2>2, <2>3, <2>4 DEF RequestsNext
<1>3. CASE SessionNext
  BY <1>3, SleepStores, StatusChanges DEF SessionNext
<1>4. CASE MaintenanceNext \/ MaintenanceStops
  BY <1>4, MaintenanceStarts, PurgeSteps, StorageSteps, PruneSteps DEF MaintenanceNext
<1> QED BY <1>1, <1>2, <1>3, <1>4 DEF Next

THEOREM IInvHolds == Spec => []IInv
BY Initially, Inductive, PTL DEF Spec

-------------------------------------------------------------------------------
(* The theorems. *)

\* The type invariant of the component.
THEOREM TypesAreCorrect == Spec => []TypeOK
<1>1. IInv => TypeOK
  BY DEF IInv, TypeInv
<1> QED BY <1>1, IInvHolds, PTL

\* Until a deletion is due, the archive has the current state of the World, whatever requests,
\* sessions, prunings and stopped maintenances do to it in any order (ADR 0006).
THEOREM LastCopyStays == Spec => []LastCopyIsKept
<1>1. IInv => LastCopyIsKept
  BY DEF IInv, ArchiveInv, LastCopyIsKept
<1> QED BY <1>1, IInvHolds, PTL

\* However many retries of restores overlap, each key is applied once (data.py:88).
THEOREM EachRestoreAppliesOnce == Spec => []RestoresApplyOnce
<1>1. IInv => RestoresApplyOnce
  BY DEF IInv
<1> QED BY <1>1, IInvHolds, PTL

\* What a restore or a deletion gives up is in a Backup that nothing prunes (data.py:95, 168).
THEOREM GivenUpIsProtected == Spec => ProtectedFirst
<1>1. ASSUME IInv, NEW c \in Calls, call[c].step = "protected", call[c].fresh, ~expired
      PROVE  \E b \in backups : b.kind \in {"restore_point", "final"} /\ b.state = world.state
  BY <1>1 DEF IInv, CallInv, Sound, Preserved
<1>2. IInv /\ [Next]_vars =>
        [\A c \in Calls :
           call[c].step = "protected" /\ call[c].fresh /\ call'[c].step = "idle"
             /\ world' # world /\ ~expired
           => \E b \in backups : b.kind \in {"restore_point", "final"} /\ b.state = world.state]_vars
  BY <1>1
<1> QED BY <1>2, IInvHolds, PTL DEF Spec, ProtectedFirst

\* Nothing but pruning and purges takes a Backup away.
LEMMA OthersKeepBackups ==
  ASSUME IInv, [Next]_vars, ~PruneOldestAutomatic, ~DeleteWorldData
  PROVE  backups \subseteq backups' /\ Len(automatic) <= Len(automatic')
<1>1. automatic \in Seq(States) /\ Len(automatic) \in Nat
  BY DEF IInv, TypeInv, TypeOK
<1>2. CASE UNCHANGED <<backups, automatic>>
  BY <1>1, <1>2
<1>3. ASSUME NEW c \in Calls,
             CreateManualBackup(c) \/ CreateRestorePoint(c) \/ CreateFinalBackup(c)
      PROVE  backups \subseteq backups' /\ Len(automatic) <= Len(automatic')
  <2>1. PICK kind, key, state : CreateBackup(kind, key, state)
    BY <1>3 DEF CreateManualBackup, CreateRestorePoint, CreateFinalBackup, Protect
  <2> QED BY <1>1, <2>1 DEF CreateBackup
<1>4. CASE CreateAutomaticBackup
  <2>1. session.state \in States
    BY <1>4 DEF CreateAutomaticBackup, IInv, TypeInv, TypeOK
  <2> QED BY <1>1, <1>4, <2>1 DEF CreateAutomaticBackup, CreateAutomatic
<1>5. CASE RequestsNext
  <2>1. ASSUME NEW c \in Calls, NEW key \in Keys,
               PassGate(c, key) \/ Read(c, "restore", key) \/ Read(c, "delete", key)
        PROVE  UNCHANGED <<backups, automatic>>
    BY <2>1 DEF PassGate, Read, Snapshot, archive
  <2>2. ASSUME NEW c \in Calls,
               ReadGated(c) \/ CallEnds(c) \/ RestoreBackup(c) \/ ScheduleDeletion(c)
        PROVE  UNCHANGED <<backups, automatic>>
    BY <2>2 DEF ReadGated, Snapshot, CallEnds, RestoreBackup, ScheduleDeletion, archive
  <2>3. CASE CancelDeletion \/ WakeWorld
    BY <2>3, <1>2 DEF CancelDeletion, WakeWorld, archive
  <2> QED BY <1>2, <1>3, <1>5, <2>1, <2>2, <2>3 DEF RequestsNext
<1>6. CASE SessionNext
  BY <1>2, <1>4, <1>6 DEF SessionNext, PersistState, FallAsleep, FailWakePreflight, archive
<1>7. CASE MaintenanceNext \/ MaintenanceStops
  BY <1>2, <1>7 DEF MaintenanceNext, MaintenanceStops, MaintainData, FindDue, DeleteRow, Measure,
       EndGrace, RunGrace, ChoosePruned, MeasurePruned, Report, ChargeStorage, LeaveUnfunded, archive
<1>8. CASE UNCHANGED vars
  BY <1>2, <1>8 DEF vars, archive
<1> QED BY <1>5, <1>6, <1>7, <1>8 DEF Next

\* However requests change the archive while the maintenance measures it, pruning takes only
\* automatic Backups, the oldest first, after a whole grace, and stops at the allowance (ADR 0022).
THEOREM PruningStaysBounded == Spec => PruningIsBounded
<1> DEFINE Taken == ~expired' /\ ~(backups \subseteq backups' /\ Len(automatic) <= Len(automatic'))
           Bounded == /\ grace = 0
                      /\ backups' = backups /\ automatic' = Tail(automatic)
                      /\ Active => StorageUsage(world.state)' >= Allowance
<1>1. ASSUME IInv, [Next]_vars, Taken PROVE Bounded
  <2>1. CASE DeleteWorldData
    BY <1>1, <2>1 DEF DeleteWorldData, IInv, ArchiveInv
  <2>2. CASE PruneOldestAutomatic
    <3>1. /\ maint.step = "prune" /\ maint.toPrune > 0 /\ automatic' = Tail(automatic)
          /\ UNCHANGED <<world, objects, backups, expired>>
      BY <2>2 DEF PruneOldestAutomatic
    <3>2. /\ maint.toPrune \in Nat /\ Allowance \in Nat /\ grace = 0
          /\ maint.toPrune <= Len(automatic) /\ automatic \in Seq(States)
          /\ StorageUsage(world.state) >= Allowance + maint.toPrune
      BY <1>1, <3>1, MaintenanceTypes DEF IInv, TypeInv, TypeOK, PruneInv, Maintenance
    <3>3. /\ Len(automatic') = Len(automatic) - 1 /\ Len(automatic) \in Nat
          /\ Cardinality(backups) \in Nat /\ StorageUsage(world.state) \in Nat
      BY <1>1, <3>1, <3>2, UsageIsNat DEF IInv, TypeInv
    <3>4. StorageUsage(world.state)' = StorageUsage(world.state) - 1
      <4>1. backups' = backups /\ objects' = objects /\ world' = world
        BY <3>1
      <4> QED BY <3>3, <4>1 DEF StorageUsage
    <3> QED BY <3>1, <3>2, <3>3, <3>4
  <2> QED BY <1>1, <2>1, <2>2, OthersKeepBackups
<1>2. IInv /\ [Next]_vars => [Taken => Bounded]_vars
  BY <1>1
<1> QED BY <1>2, IInvHolds, PTL DEF Spec, PruningIsBounded
===============================================================================
