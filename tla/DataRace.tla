------------------------------ MODULE DataRace ------------------------------
(***************************************************************************)
(* The race detector (datarace.cc, librace.cc).  Ordinary loads and stores  *)
(* are no model actions: each one is checked against a shadow record of the *)
(* earlier accesses to its byte, where an access is known by its thread and *)
(* by the clock (sequence number) of the action that thread took last.  A   *)
(* record keeps the last write and the reads since then that no later read  *)
(* subsumes; it starts in a 64-bit short form and is expanded when it has   *)
(* to hold several reads or a large thread id or clock.                     *)
(*                                                                         *)
(* The execution underneath (ModelExecution) is abstracted to what the      *)
(* detector depends on: a trace of actions with their clock vectors, the    *)
(* synchronization each action establishes, at once or when a pending       *)
(* release sequence is resolved, and whether promises are open.  While      *)
(* either is pending the prefix is not feasible for certain, and a race is  *)
(* put aside because later synchronization may still order the accesses.    *)
(* The release head a sequence may turn out to have is chosen together with *)
(* its acquire.  One shadow record is modelled: the bytes do not interact.  *)
(***************************************************************************)
EXTENDS Integers, Sequences, FiniteSets

CONSTANTS
  Threads,        \* the user threads
  Main,           \* the thread that runs user_main
  LargeIds,       \* the threads whose id exceeds MAXTHREADID
  MAXVECTOR,      \* MAXREADVECTOR = MAXWRITEVECTOR
  INITCAPACITY,   \* room for reads in a record that is expanded with a read
  MaxActions,     \* bound: the actions of an execution
  MaxAccesses,    \* bound: the accesses of an execution
  MaxPending      \* bound: the release sequences pending at a time

ASSUME DataRaceAssumption ==
  /\ Main \in Threads /\ LargeIds \subseteq Threads
  /\ MAXVECTOR \in Nat /\ INITCAPACITY \in Nat \ {0}
  /\ MaxActions \in Nat /\ MaxAccesses \in Nat /\ MaxPending \in Nat

VARIABLES
  trace,      \* action_trace: the thread of each action; its clock is its place
  cv,         \* the clock vector of each action
  pending,    \* pending_rel_seqs: [acquire, release]
  promised,   \* whether promises are open
  shadow,     \* the shadow record of the byte
  races,      \* unrealizedraces: [oldthread, oldclock, newaction]
  bug,        \* a race has been asserted, the execution is over
  sync,       \* history: the synchronizes-with edges established so far
  accesses    \* history: [act, write], act the last action of its thread then

vars == <<trace, cv, pending, promised, shadow, races, bug, sync, accesses>>

Clocks == 0 .. MaxActions
Actions == DOMAIN trace

-----------------------------------------------------------------------------
(* Clock vectors. *)

Zero == [t \in Threads |-> 0]

\* ClockVector::merge.
merge(c, d) == [t \in Threads |-> IF d[t] > c[t] THEN d[t] ELSE c[t]]

\* get_parent_action: the last action of thread t, 0 before its first.
get_parent_action(t) ==
  LET mine == {i \in Actions : trace[i] = t}
  IN  IF mine = {} THEN 0 ELSE CHOOSE i \in mine : \A j \in mine : j <= i

\* ModelAction::happens_before, over the clock vectors c.
happens_before(c, i, k) == i <= c[k][trace[i]]

\* Mutant: the actions behind the acquire keep their clock vectors.
propagate_clockvector_None(c, acquire) == c

\* propagate_clockvector: every later action that follows the acquire takes
\* over its clock vector.
propagate_clockvector(c, acquire) ==
  [k \in DOMAIN c |-> IF k > acquire /\ happens_before(c, acquire, k)
                      THEN merge(c[k], c[acquire]) ELSE c[k]]

-----------------------------------------------------------------------------
(* Shadow records. *)

NoWrite == [thread |-> Main, clock |-> 0]

\* A shadow word of 0: a short record with neither a read nor a write.
EmptyShadow == [short |-> TRUE, write |-> NoWrite, reads |-> {}, capacity |-> 0]

\* Mutant: an access counts as synchronized with the action before it.
clock_may_race_Strict(c, t, access) ==
  t # access.thread /\ access.clock # 0 /\ c[access.thread] < access.clock

\* clock_may_race: the clock vector c of thread t does not order the access
\* that thread old made at its clock before this one.
clock_may_race(c, t, access) ==
  t # access.thread /\ access.clock # 0 /\ c[access.thread] <= access.clock

\* "Thread ID is too large or clock is too large" for the short form.
TooLarge(t, clock) == t \in LargeIds \/ clock > MAXVECTOR

\* ENCODEOP and back: the clock fields are READMASK = MAXVECTOR + 1 wide.
Encoded(access) == [access EXCEPT !.clock = @ % (MAXVECTOR + 2)]

\* expandRecord: arrays are allocated only if the short record holds a read.
expandRecord(s) ==
  [s EXCEPT !.short = FALSE, !.capacity = IF s.reads = {} THEN 0 ELSE INITCAPACITY]

\* The accesses in the record s that race with a new one of thread t at c.
RacingWrite(s, c, t) == {a \in {s.write} : clock_may_race(c, t, a)}
RacingReads(s, c, t) == {a \in s.reads : clock_may_race(c, t, a)}

\* fullRaceCheckWrite: the write replaces everything recorded.
fullRaceCheckWrite(s, t, clock) ==
  [s EXCEPT !.reads = {}, !.write = [thread |-> t, clock |-> clock]]

\* raceCheckWrite: the record after a write of thread t.
raceCheckWrite(s, t, clock) ==
  IF ~s.short THEN fullRaceCheckWrite(s, t, clock)
  ELSE IF TooLarge(t, clock) THEN fullRaceCheckWrite(expandRecord(s), t, clock)
  ELSE [s EXCEPT !.reads = {}, !.write = Encoded([thread |-> t, clock |-> clock])]

\* Mutant: a new read subsumes every other.
Kept_None(s, c, t) == {}

\* The reads a new read of thread t does not subsume.  It subsumes those of t
\* itself: the reads of a record are of different threads, and a set of them
\* stands for the arrays.
Kept(s, c, t) == {a \in s.reads : clock_may_race(c, t, a)}

\* Mutant: the arrays are doubled one read too late.
fullRaceCheckRead_Late(s, c, t, clock) ==
  LET kept == Kept(s, c, t)
  IN  [s EXCEPT !.reads = kept \cup {[thread |-> t, clock |-> clock]},
                !.capacity = IF Cardinality(kept) > @ THEN 2 * @ ELSE @]

\* fullRaceCheckRead: the new read is put behind those it does not subsume,
\* in arrays of twice the size once it does not fit.
fullRaceCheckRead(s, c, t, clock) ==
  LET kept == Kept(s, c, t)
  IN  [s EXCEPT !.reads = kept \cup {[thread |-> t, clock |-> clock]},
                !.capacity = IF Cardinality(kept) >= @ THEN 2 * @ ELSE @]

\* The arrays of a full record hold what it counts.  A record expanded without
\* a read in it has arrays of capacity 0, which doubling does not change: the
\* next read is written past their end.  Its effect is undefined, and the model
\* stops there.
HasRoom(s) == s.short \/ Cardinality(s.reads) <= s.capacity

\* raceCheckRead: the record after a read of thread t.
raceCheckRead(s, c, t, clock) ==
  IF ~s.short THEN fullRaceCheckRead(s, c, t, clock)
  ELSE IF TooLarge(t, clock) \/ Kept(s, c, t) # {}
  THEN fullRaceCheckRead(expandRecord(s), c, t, clock)
  ELSE [s EXCEPT !.reads = {Encoded([thread |-> t, clock |-> clock])}]

-----------------------------------------------------------------------------
Init ==
  /\ trace = <<>> /\ cv = <<>> /\ pending = {} /\ promised = FALSE
  /\ shadow = EmptyShadow /\ races = {} /\ bug = FALSE
  /\ sync = {} /\ accesses = {}

\* isfeasibleprefix, as far as it can still change.
isfeasibleprefix(pend, prom) == pend = {} /\ ~prom

\* Mutant: a queued race is asserted without looking at it again.
StillRaces_Always(c, tr, r) == TRUE

\* A queued race is still one: its second action has not synchronized since.
StillRaces(c, tr, r) ==
  clock_may_race(c[r.newaction], tr[r.newaction], [thread |-> r.oldthread, clock |-> r.oldclock])

\* checkDataRaces: in a feasible prefix, a queued race that is still one is
\* asserted as a bug and the queue is emptied.
checkDataRaces(c, tr, queue, feasible) ==
  IF feasible
  THEN /\ bug' = \E r \in queue : StillRaces(c, tr, r)
       /\ races' = {}
  ELSE /\ races' = queue
       /\ UNCHANGED bug

\* No pending release sequence is looked at.
NoSequence == [acquire |-> 0, release |-> 0]

\* resolve_release_sequences for one pending sequence: it synchronizes, or is
\* settled without, or synchronizes in part and stays.
Resolve(c, p, synced) ==
  IF synced
  THEN propagate_clockvector([c EXCEPT ![p.acquire] = merge(@, c[p.release])], p.acquire)
  ELSE c

\* take_step for an action of thread t.  It synchronizes with an earlier action
\* of another thread, as the start of a thread does with its creation, or leaves
\* that to a pending release sequence; it may read from a promise or be the
\* store that resolves one; its work queue may settle the release sequence p.
Step(t) ==
  /\ ~bug /\ HasRoom(shadow) /\ Len(trace) < MaxActions
  /\ (trace = <<>>) => (t = Main)
  /\ \E from \in {0} \cup {i \in Actions : trace[i] # t}, late \in BOOLEAN, prom \in BOOLEAN,
        p \in pending \cup {NoSequence}, synced \in BOOLEAN, settled \in BOOLEAN :
       LET parent == get_parent_action(t)
           New    == Len(trace) + 1
           own    == [(IF parent = 0 THEN Zero ELSE cv[parent]) EXCEPT ![t] = New]
           taken  == IF from = 0 \/ late THEN own ELSE merge(own, cv[from])
           tr     == Append(trace, t)
           c      == Resolve(Append(cv, taken), p, synced)
           pend   == (pending \ (IF settled THEN {p} ELSE {}))
                     \cup (IF late THEN {[acquire |-> New, release |-> from]} ELSE {})
       IN  /\ late => from # 0
           /\ Cardinality(pend) <= MaxPending
           /\ (parent = 0 /\ t # Main) => (from # 0 /\ ~late)
           /\ IF p = NoSequence THEN ~synced /\ ~settled ELSE synced \/ settled
           /\ trace' = tr /\ cv' = c /\ pending' = pend /\ promised' = prom
           /\ sync' = sync \cup (IF from = 0 \/ late THEN {} ELSE {<<from, New>>})
                           \cup (IF synced THEN {<<p.release, p.acquire>>} ELSE {})
           /\ checkDataRaces(c, tr, races, isfeasibleprefix(pend, prom))
  /\ UNCHANGED <<shadow, accesses>>

\* An access of the thread that took the last step, whose code runs on until
\* its next action.  reportDataRace is called for every racing access found;
\* in a feasible prefix the first ends the execution.
Access(write, old, after) ==
  LET found == {[oldthread |-> a.thread, oldclock |-> a.clock, newaction |-> Len(trace)] : a \in old}
  IN  /\ shadow' = after
      /\ IF found = {} THEN UNCHANGED <<races, bug>>
         ELSE checkDataRaces(cv, trace, races \cup found, isfeasibleprefix(pending, promised))
      /\ accesses' = accesses \cup {[act |-> Len(trace), write |-> write]}
      /\ UNCHANGED <<trace, cv, pending, promised, sync>>

\* store_8 and its like: raceCheckWrite for each byte.
Write ==
  /\ ~bug /\ HasRoom(shadow) /\ trace # <<>> /\ Cardinality(accesses) < MaxAccesses
  /\ LET t == trace[Len(trace)]
         c == cv[Len(trace)]
     IN  Access(TRUE, RacingReads(shadow, c, t) \cup RacingWrite(shadow, c, t),
                raceCheckWrite(shadow, t, c[t]))

\* load_8 and its like: raceCheckRead for each byte.
Read ==
  /\ ~bug /\ HasRoom(shadow) /\ trace # <<>> /\ Cardinality(accesses) < MaxAccesses
  /\ LET t == trace[Len(trace)]
         c == cv[Len(trace)]
     IN  Access(FALSE, RacingWrite(shadow, c, t), raceCheckRead(shadow, c, t, c[t]))

Next == (\E t \in Threads : Step(t)) \/ Write \/ Read

Spec == Init /\ [][Next]_vars

-----------------------------------------------------------------------------
(* Reference: races by definition. *)

\* The actions that happen before k or are k, over the graph of program order
\* and synchronizes-with, whose edges go forward in the trace.
Past ==
  LET past[k \in Actions] ==
        {k} \cup UNION {past[j] : j \in {i \in 1 .. k - 1 : trace[i] = trace[k] \/ <<i, k>> \in sync}}
  IN  past

\* Two accesses race if they conflict and the thread of the earlier takes no
\* step after it that happens before the later.
Race(x, y) ==
  /\ x.act < y.act /\ trace[x.act] # trace[y.act]
  /\ x.write \/ y.write
  /\ \A k \in Past[y.act] : trace[k] = trace[x.act] => k <= x.act

RaceExists == \E x, y \in accesses : Race(x, y)

-----------------------------------------------------------------------------
(* Properties. *)

Recorded(a, write) ==
  a.clock # 0 => /\ [act |-> a.clock, write |-> write] \in accesses
                 /\ trace[a.clock] = a.thread

\* Every action has a clock vector, and what the shadow record and the queue
\* name are accesses that were made, under the clock they were made at.
TypeOK ==
  /\ trace \in Seq(Threads) /\ Len(trace) <= MaxActions
  /\ cv \in [Actions -> [Threads -> Clocks]]
  /\ pending \subseteq [acquire : Actions, release : Actions]
  /\ promised \in BOOLEAN /\ bug \in BOOLEAN
  /\ shadow.short \in BOOLEAN /\ shadow.capacity \in Nat
  /\ shadow.write.thread \in Threads /\ Recorded(shadow.write, TRUE)
  /\ \A a \in shadow.reads : Recorded(a, FALSE)
  /\ \A r \in races : /\ r.newaction \in Actions
                      /\ \E a \in accesses : a.act = r.oldclock /\ trace[a.act] = r.oldthread

\* Clock vectors decide happens-before: the clock of a thread is its latest
\* action in the past of the vector's action, also after a release sequence is
\* resolved long after the acquire and the actions behind it.
ClocksAreExact ==
  LET past == Past
  IN  \A k \in Actions, t \in Threads :
        LET mine == {i \in past[k] : trace[i] = t}
        IN  /\ mine = {} => cv[k][t] = 0
            /\ mine # {} => cv[k][t] \in mine /\ \A i \in mine : i <= cv[k][t]

\* No race gets lost: whatever records have been subsumed and overwritten, as
\* long as two accesses race some race is asserted or queued and still one.
\* The queued one may be another race than these two.
RacesAreKnown ==
  ~bug /\ RaceExists => \E r \in races : StillRaces(cv, trace, r)

\* A feasible prefix without a bug report has no race: nothing stays queued
\* once the release sequences and the promises it waited for are settled.
FeasiblePrefixIsRaceFree ==
  ~bug /\ isfeasibleprefix(pending, promised) => ~RaceExists

\* A race is asserted only in an execution that has one.
NoFalseAlarm ==
  bug => RaceExists

\* The reads of an expanded record lie within its arrays, however many threads
\* read and whatever their reads subsume, if it has got arrays at all: those
\* that expandRecord allocates for the read it finds are doubled in time.
ReadsFit ==
  shadow.capacity # 0 => HasRoom(shadow)

\* The detector's records are exact: clocks, and the arrays reads are kept in.
RecordsExact == TypeOK /\ ClocksAreExact /\ ReadsFit

\* No race is missed, while it is put aside and when nothing is in doubt.
NoRaceIsMissed == RacesAreKnown /\ FeasiblePrefixIsRaceFree
=============================================================================
