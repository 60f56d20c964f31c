---------------------------- MODULE AgendaProofs ----------------------------
(***************************************************************************)
(* The search leaves a Node when every choice has been made exactly once,  *)
(* and every future value a store sent has been read, in one form or       *)
(* another: for every action, however many stores, promises and values     *)
(* there are and whenever they turn up.                                    *)
(*                                                                         *)
(* A node makes its choices in a fixed order: those before its place were  *)
(* made, those behind it were not.  Whatever arrives is put behind it.     *)
(***************************************************************************)
EXTENDS ChoicesProofs, FiniteSetTheorems

\* What the node hands out.
Current(n) == IF act.kind \in ReadKinds THEN ReadFrom(n) ELSE NoRead

\* The lists are read one after another.
Ordered(n) ==
    /\ n.status = "PAST" => n.promise_idx = -1 /\ n.future_index = -1
    /\ n.status = "PROMISE" => n.past_idx = act.past /\ n.future_index = -1
    /\ n.status = "FUTURE" => n.past_idx = act.past /\ n.promise_idx = act.inherited

\* Read before the node got to its place.
ReadBefore(rf, n) ==
    \/ rf[1] = "past" /\ rf[2] < n.past_idx
    \/ rf[1] = "promise" /\ rf[2] < n.promise_idx
    \/ rf[1] = "future" /\ rf[2] < n.future_index

\* Chosen before the node got to its place.
Before(c, n) ==
    \/ ReadBefore(c.rf, n)
    \/ c.rf = Current(n) /\ c.resolve < n.resolve_idx
    \/ c.misc < n.misc_index
    \/ c.break < n.break_idx

\* What may be resolved with what is read.
Allowed(rf, f) == IF act.kind \in {"write", "rmw"} THEN Resolvable(rf, f) ELSE {}

\* One of the waiters, one of the stores that break a release sequence.
Counted(n) == /\ n.misc_index \in UpTo(act.misc) /\ n.break_idx \in UpTo(act.breaks)
              /\ act.kind \notin ReadKinds => n.future_values = <<>>

\* An execution has been at the node with this choice of what to read.
Settled(n) ==
    /\ Counted(n)
    /\ act.kind \in ReadKinds => /\ n.status # "NONE"
                                 /\ n.status = "PAST" => n.past_idx < act.past /\ Past(n.past_idx) \notin act.old
    /\ n.resolve = Allowed(Current(n), n.future_values)

\* It has not, or has.
Ready(n) == Settled(n) \/ (Counted(n) /\ act.kind \in ReadKinds /\ n.status # "NONE" /\ n.resolve = {})

MadeBefore == ran = {c \in Legal : Before(c, node)}
MadeHere == ran = {c \in Legal : Before(c, node)} \cup {Choice(node)} /\ Choice(node) \in Legal

\* What has been made: all that comes before the node's place, and the choice
\* at it once an execution got there; all, if there was nothing to read.
PlaceInv ==
    /\ phase # "left" => Ordered(node)
    /\ phase = "reach" /\ fresh => Ready(node) /\ MadeBefore
    /\ phase = "reach" /\ ~fresh => Settled(node) /\ MadeHere
    /\ phase \in {"run", "end"} => ~fresh
    /\ phase \in {"run", "end"} => \/ Settled(node) /\ MadeHere
                                   \/ ~alive /\ ~ChoiceLeft(node) /\ ran = Legal
    /\ phase \in {"run", "end"} => (flagged <=> backtrack \/ ChoiceLeft(node))

\* Every value sent is on the list, or one that expires about as late, or the
\* list is full; and the values up to the node's place have been read.
ReadsBehind == IF phase = "reach" /\ fresh THEN 0 ELSE 1
ValueInv ==
    /\ sent \subseteq FutureValue
    /\ \A fv \in sent :
          \/ \E i \in SameValue(node, fv) : node.future_values[i].expiration + ExpireSlop >= fv.expiration
          \/ MaxFutureValues > 0 /\ Len(node.future_values) = MaxFutureValues
    /\ MaxFutureValues > 0 => Len(node.future_values) <= MaxFutureValues
    /\ phase # "left" => \A j \in DOMAIN node.future_values :
          j <= node.future_index + ReadsBehind => node.future_values[j] \in received
    /\ phase = "left" => \A j \in DOMAIN node.future_values : node.future_values[j] \in received

AInv == IInv /\ PlaceInv /\ ValueInv
-----------------------------------------------------------------------------
(* The place of a node among what it may read.                             *)

\* All there is to read, stale stores included.
Listed(n) == {Past(i) : i \in 0..act.past - 1} \cup {Promised(i) : i \in 0..act.inherited - 1}
             \cup {Future(i - 1) : i \in DOMAIN n.future_values}

\* What it means for each of them to be before the node's place, or at it.
LEMMA PastAt == ASSUME NEW i, NEW n
                PROVE  /\ ReadBefore(Past(i), n) <=> i < n.past_idx
                       /\ Past(i) = ReadFrom(n) <=> n.status = "PAST" /\ i = n.past_idx
BY DEF ReadBefore, Past, ReadFrom, Promised, Future, NoRead

LEMMA PromisedAt == ASSUME NEW i, NEW n
                    PROVE  /\ ReadBefore(Promised(i), n) <=> i < n.promise_idx
                           /\ Promised(i) = ReadFrom(n) <=> n.status = "PROMISE" /\ i = n.promise_idx
BY DEF ReadBefore, Past, ReadFrom, Promised, Future, NoRead

LEMMA FutureAt == ASSUME NEW i, NEW n
                  PROVE  /\ ReadBefore(Future(i), n) <=> i < n.future_index
                         /\ Future(i) = ReadFrom(n) <=> n.status = "FUTURE" /\ i = n.future_index
BY DEF ReadBefore, Past, ReadFrom, Promised, Future, NoRead

LEMMA NoReadAt == ASSUME NEW n PROVE ~ReadBefore(NoRead, n)
BY DEF ReadBefore, NoRead

\* Where increment_read_from puts the node.
LEMMA NextReadFields ==
    ASSUME act \in Actions, NEW n, Ranges(n)
    PROVE  LET m == NextRead(n).node
           IN  /\ m.resolve = n.resolve /\ m.resolve_idx = n.resolve_idx
               /\ m.misc_index = n.misc_index /\ m.break_idx = n.break_idx
               /\ m.future_values = n.future_values
               /\ \/ /\ n.past_idx + 1 < act.past /\ m.status = "PAST" /\ m.past_idx = n.past_idx + 1
                     /\ m.promise_idx = n.promise_idx /\ m.future_index = n.future_index
                  \/ /\ n.past_idx + 1 >= act.past /\ m.past_idx = act.past
                     /\ n.promise_idx + 1 < act.inherited
                     /\ m.status = "PROMISE" /\ m.promise_idx = n.promise_idx + 1
                     /\ m.future_index = n.future_index
                  \/ /\ n.past_idx + 1 >= act.past /\ m.past_idx = act.past
                     /\ n.promise_idx + 1 >= act.inherited /\ m.promise_idx = act.inherited
                     /\ n.future_index + 1 < Len(n.future_values)
                     /\ m.status = "FUTURE" /\ m.future_index = n.future_index + 1
                  \/ /\ n.past_idx + 1 >= act.past /\ m.past_idx = act.past
                     /\ n.promise_idx + 1 >= act.inherited /\ m.promise_idx = act.inherited
                     /\ n.future_index + 1 >= Len(n.future_values)
                     /\ m.status = "NONE" /\ m.future_index = Len(n.future_values)
<1> DEFINE past == Increment(n.past_idx, act.past)
           promise == Increment(n.promise_idx, act.inherited)
           future == Increment(n.future_index, Len(n.future_values))
           m == NextRead(n).node
<1>0. act.past \in Nat /\ act.inherited \in Nat /\ Len(n.future_values) \in Nat
      /\ n.past_idx \in Int /\ n.promise_idx \in Int /\ n.future_index \in Int
  BY Counts DEF Ranges, Nodes
<1>1. /\ past < act.past => n.past_idx + 1 < act.past /\ past = n.past_idx + 1
      /\ ~(past < act.past) => n.past_idx + 1 >= act.past /\ past = act.past
  BY <1>0 DEF Ranges, Increment
<1>2. /\ promise < act.inherited => n.promise_idx + 1 < act.inherited /\ promise = n.promise_idx + 1
      /\ ~(promise < act.inherited) => n.promise_idx + 1 >= act.inherited /\ promise = act.inherited
  BY <1>0 DEF Ranges, Increment
<1>3. LET size == Len(n.future_values)
      IN  /\ future < size => n.future_index + 1 < size /\ future = n.future_index + 1
          /\ ~(future < size) => n.future_index + 1 >= size /\ future = size
  BY <1>0 DEF Ranges, Increment
<1>4. NextRead(n) =
        LET pasts == [n EXCEPT !.past_idx = past]
            promises == [pasts EXCEPT !.promise_idx = promise]
            futures == [promises EXCEPT !.future_index = future]
        IN  IF past < act.past THEN To(TRUE, [pasts EXCEPT !.status = "PAST"])
            ELSE IF promise < act.inherited THEN To(TRUE, [promises EXCEPT !.status = "PROMISE"])
            ELSE IF future < Len(n.future_values) THEN To(TRUE, [futures EXCEPT !.status = "FUTURE"])
            ELSE To(FALSE, [futures EXCEPT !.status = "NONE"])
  BY Zenon DEF NextRead
<1> HIDE DEF past, promise, future
<1> DEFINE pasts == [n EXCEPT !.past_idx = past]
           promises == [pasts EXCEPT !.promise_idx = promise]
           futures == [promises EXCEPT !.future_index = future]
<1>p. /\ pasts.past_idx = past /\ pasts.promise_idx = n.promise_idx /\ pasts.future_index = n.future_index
      /\ pasts.resolve = n.resolve /\ pasts.resolve_idx = n.resolve_idx
      /\ pasts.misc_index = n.misc_index /\ pasts.break_idx = n.break_idx
      /\ pasts.future_values = n.future_values
      /\ DOMAIN pasts = DOMAIN n
  BY DEF Ranges, Nodes
<1>d. DOMAIN n = {"status", "past_idx", "promise_idx", "future_values", "future_index", "resolve",
                  "resolve_idx", "misc_index", "break_idx"}
  BY DEF Ranges, Nodes
<1> HIDE DEF pasts
<1>q. /\ promises.past_idx = past /\ promises.promise_idx = promise
      /\ promises.future_index = n.future_index
      /\ promises.resolve = n.resolve /\ promises.resolve_idx = n.resolve_idx
      /\ promises.misc_index = n.misc_index /\ promises.break_idx = n.break_idx
      /\ promises.future_values = n.future_values
      /\ DOMAIN promises = DOMAIN n
  BY <1>p, <1>d
<1> HIDE DEF promises
<1>r. /\ futures.past_idx = past /\ futures.promise_idx = promise
      /\ futures.future_index = future
      /\ futures.resolve = n.resolve /\ futures.resolve_idx = n.resolve_idx
      /\ futures.misc_index = n.misc_index /\ futures.break_idx = n.break_idx
      /\ futures.future_values = n.future_values
      /\ DOMAIN futures = DOMAIN n
  BY <1>q, <1>d
<1> HIDE DEF futures
<1>5. CASE past < act.past
  <2>1. m = [pasts EXCEPT !.status = "PAST"]
    BY <1>4, <1>5 DEF To, pasts
  <2> QED BY <1>1, <1>5, <2>1, <1>p, <1>d
<1>6. CASE ~(past < act.past) /\ promise < act.inherited
  <2>1. m = [promises EXCEPT !.status = "PROMISE"]
    BY <1>4, <1>6 DEF To, pasts, promises
  <2> QED BY <1>1, <1>2, <1>6, <2>1, <1>q, <1>d
<1>7. CASE ~(past < act.past) /\ ~(promise < act.inherited) /\ future < Len(n.future_values)
  <2>1. m = [futures EXCEPT !.status = "FUTURE"]
    BY <1>4, <1>7 DEF To, pasts, promises, futures
  <2> QED BY <1>1, <1>2, <1>3, <1>7, <2>1, <1>r, <1>d
<1>8. CASE ~(past < act.past) /\ ~(promise < act.inherited) /\ ~(future < Len(n.future_values))
  <2>1. m = [futures EXCEPT !.status = "NONE"]
    BY <1>4, <1>8 DEF To, pasts, promises, futures
  <2> QED BY <1>1, <1>2, <1>3, <1>8, <2>1, <1>r, <1>d
<1> QED BY <1>5, <1>6, <1>7, <1>8

\* The node moves past what it was at, and past nothing else.
LEMMA NextPlace ==
    ASSUME act \in Actions, NEW n, Ranges(n), Ordered(n)
    PROVE  LET m == NextRead(n).node
           IN  /\ Ordered(m)
               /\ \A rf \in Listed(n) : ReadBefore(rf, m) <=> ReadBefore(rf, n) \/ rf = ReadFrom(n)
<1> DEFINE m == NextRead(n).node
<1>0. /\ act.past \in Nat /\ act.inherited \in Nat /\ Len(n.future_values) \in Nat
      /\ n.past_idx \in Int /\ n.promise_idx \in Int /\ n.future_index \in Int
      /\ n.future_values \in Seq(FutureValue)
      /\ n.status \in {"PAST", "PROMISE", "FUTURE", "NONE"}
  BY Counts DEF Ranges, Nodes
<1>1. \/ /\ n.past_idx + 1 < act.past /\ m.status = "PAST" /\ m.past_idx = n.past_idx + 1
         /\ m.promise_idx = n.promise_idx /\ m.future_index = n.future_index
      \/ /\ n.past_idx + 1 >= act.past /\ m.past_idx = act.past
         /\ n.promise_idx + 1 < act.inherited
         /\ m.status = "PROMISE" /\ m.promise_idx = n.promise_idx + 1
         /\ m.future_index = n.future_index
      \/ /\ n.past_idx + 1 >= act.past /\ m.past_idx = act.past
         /\ n.promise_idx + 1 >= act.inherited /\ m.promise_idx = act.inherited
         /\ n.future_index + 1 < Len(n.future_values)
         /\ m.status = "FUTURE" /\ m.future_index = n.future_index + 1
      \/ /\ n.past_idx + 1 >= act.past /\ m.past_idx = act.past
         /\ n.promise_idx + 1 >= act.inherited /\ m.promise_idx = act.inherited
         /\ n.future_index + 1 >= Len(n.future_values)
         /\ m.status = "NONE" /\ m.future_index = Len(n.future_values)
  BY NextReadFields
<1> HIDE DEF m
<1>2. Ordered(m)
  BY <1>0, <1>1 DEF Ordered, Ranges
<1>3. ASSUME NEW i \in 0..act.past - 1
      PROVE  ReadBefore(Past(i), m) <=> ReadBefore(Past(i), n) \/ Past(i) = ReadFrom(n)
  <2>1. i < m.past_idx <=> i < n.past_idx \/ (n.status = "PAST" /\ i = n.past_idx)
    BY <1>0, <1>1 DEF Ordered, Ranges
  <2> QED BY <2>1, PastAt, Zenon
<1>4. ASSUME NEW i \in 0..act.inherited - 1
      PROVE  ReadBefore(Promised(i), m) <=> ReadBefore(Promised(i), n) \/ Promised(i) = ReadFrom(n)
  <2>1. i < m.promise_idx <=> i < n.promise_idx \/ (n.status = "PROMISE" /\ i = n.promise_idx)
    BY <1>0, <1>1 DEF Ordered, Ranges
  <2> QED BY <2>1, PromisedAt, Zenon
<1>5. ASSUME NEW i \in DOMAIN n.future_values
      PROVE  ReadBefore(Future(i - 1), m) <=> ReadBefore(Future(i - 1), n) \/ Future(i - 1) = ReadFrom(n)
  <2>0. i \in 1..Len(n.future_values)
    BY <1>0
  <2>1. i - 1 < m.future_index <=> i - 1 < n.future_index \/ (n.status = "FUTURE" /\ i - 1 = n.future_index)
    BY <1>0, <1>1, <2>0 DEF Ordered, Ranges
  <2> QED BY <2>1, FutureAt, Zenon
<1>6. \A rf \in Listed(n) : ReadBefore(rf, m) <=> ReadBefore(rf, n) \/ rf = ReadFrom(n)
  BY <1>3, <1>4, <1>5 DEF Listed
<1> QED BY <1>2, <1>6 DEF m

\* The place does not depend on what may be resolved.
SamePlace(m, n) == /\ m.status = n.status /\ m.past_idx = n.past_idx /\ m.promise_idx = n.promise_idx
                   /\ m.future_index = n.future_index

LEMMA SamePlaceIs ==
    ASSUME NEW m, NEW n, SamePlace(m, n)
    PROVE  /\ Ordered(m) <=> Ordered(n)
           /\ \A rf : ReadBefore(rf, m) <=> ReadBefore(rf, n)
           /\ ReadFrom(m) = ReadFrom(n)
BY DEF SamePlace, Ordered, ReadBefore, ReadFrom

LEMMA ClearFields ==
    ASSUME NEW n, Ranges(n)
    PROVE  LET c == clear_promise_resolutions(n)
           IN  /\ SamePlace(c, n) /\ c.resolve = {} /\ c.resolve_idx = -1 /\ c.misc_index = n.misc_index
               /\ c.break_idx = n.break_idx /\ c.future_values = n.future_values
BY DEF SamePlace, Nodes, Ranges, clear_promise_resolutions

LEMMA ReadPlace ==
    ASSUME act \in Actions, NEW n, Ranges(n), Ordered(n)
    PROVE  LET m == increment_read_from(n).node
           IN  /\ Ordered(m) /\ m.resolve = {} /\ m.resolve_idx = -1
               /\ m.misc_index = n.misc_index /\ m.break_idx = n.break_idx
               /\ m.future_values = n.future_values
               /\ \A rf \in Listed(n) : ReadBefore(rf, m) <=> ReadBefore(rf, n) \/ rf = ReadFrom(n)
<1> DEFINE c == clear_promise_resolutions(n)
           m == NextRead(c).node
<1>1. Ranges(c)
  BY ClearStep
<1>2. /\ SamePlace(c, n) /\ c.resolve = {} /\ c.resolve_idx = -1 /\ c.misc_index = n.misc_index
      /\ c.break_idx = n.break_idx /\ c.future_values = n.future_values
  BY ClearFields
<1> HIDE DEF c
<1>3. Ordered(c) /\ (\A rf : ReadBefore(rf, c) <=> ReadBefore(rf, n)) /\ ReadFrom(c) = ReadFrom(n)
  BY <1>2, SamePlaceIs
<1>4. /\ Ordered(m)
      /\ \A rf \in Listed(c) : ReadBefore(rf, m) <=> ReadBefore(rf, c) \/ rf = ReadFrom(c)
  BY <1>1, <1>3, NextPlace
<1>5. m.resolve = c.resolve /\ m.resolve_idx = c.resolve_idx /\ m.misc_index = c.misc_index
      /\ m.break_idx = c.break_idx /\ m.future_values = c.future_values
  BY <1>1, NextReadFields
<1>6. Listed(c) = Listed(n)
  BY <1>2 DEF Listed
<1>7. increment_read_from(n).node = m
  BY DEF increment_read_from, c
<1> HIDE DEF m
<1> QED BY <1>2, <1>3, <1>4, <1>5, <1>6, <1>7
-----------------------------------------------------------------------------
(* The choices there are.                                                  *)

Readable(f) == IF act.kind \in ReadKinds
               THEN ({Past(i) : i \in 0..act.past - 1} \ act.old)
                    \cup {Promised(i) : i \in 0..act.inherited - 1} \cup {Future(i - 1) : i \in DOMAIN f}
               ELSE {NoRead}

Menu(f) == {c \in [rf : Readable(f), resolve : Int, misc : UpTo(act.misc), break : UpTo(act.breaks)] :
                c.resolve \in {-1} \cup Allowed(c.rf, f)}

\* What may be resolved are finitely many numbers.
LEMMA AllowedIs == ASSUME act \in Actions, NEW rf, NEW f
                   PROVE  Allowed(rf, f) \subseteq Nat /\ IsFiniteSet(Allowed(rf, f))
<1>1. ASSUME NEW r PROVE Resolvable(r, f) \subseteq Nat /\ IsFiniteSet(Resolvable(r, f))
  BY ActionsAssumption, FS_EmptySet DEF Resolvable
<1> QED BY <1>1, FS_EmptySet DEF Allowed

LEMMA LegalIs == ASSUME act \in Actions PROVE Legal = Menu(node.future_values)
<1> DEFINE f == node.future_values
           Of(rf) == {[rf |-> rf, resolve |-> k, misc |-> m, break |-> b] :
                          k \in {-1} \cup Allowed(rf, f), m \in UpTo(act.misc), b \in UpTo(act.breaks)}
<1>1. Legal = UNION {Of(rf) : rf \in Readable(f)}
  BY DEF Legal, Readable, Reads, Allowed
<1>2. ASSUME NEW c PROVE c \in UNION {Of(rf) : rf \in Readable(f)} <=> c \in Menu(f)
  <2>1. ASSUME NEW rf \in Readable(f), c \in Of(rf) PROVE c \in Menu(f)
    <3>1. PICK k \in {-1} \cup Allowed(rf, f), m \in UpTo(act.misc), b \in UpTo(act.breaks) :
             c = [rf |-> rf, resolve |-> k, misc |-> m, break |-> b]
      BY <2>1
    <3>2. k \in Int
      BY AllowedIs
    <3> QED BY <3>1, <3>2 DEF Menu
  <2>2. ASSUME c \in Menu(f) PROVE c.rf \in Readable(f) /\ c \in Of(c.rf)
    BY <2>2 DEF Menu
  <2> HIDE DEF f, Of
  <2> QED BY <2>1, <2>2
<1> QED BY <1>1, <1>2

\* They are finitely many.
LEMMA ReadableFinite == ASSUME act \in Actions, NEW f \in Seq(FutureValue)
                        PROVE  IsFiniteSet(Readable(f))
<1> DEFINE S1 == {Past(i) : i \in 0..act.past - 1}
           S2 == {Promised(i) : i \in 0..act.inherited - 1}
           S3 == {Future(i - 1) : i \in DOMAIN f}
<1>0. act.past \in Nat /\ act.inherited \in Nat /\ Len(f) \in Nat /\ DOMAIN f = 1..Len(f)
  BY Counts
<1>1. IsFiniteSet(S1)
  <2> DEFINE g == [i \in 0..act.past - 1 |-> Past(i)]
  <2>1. g \in Surjection(0..act.past - 1, S1)
    BY DEF Surjection
  <2>2. act.past - 1 \in Int
    BY <1>0
  <2>3. IsFiniteSet(0..act.past - 1)
    BY <2>2, FS_Interval
  <2> HIDE DEF g, S1
  <2> QED BY <2>1, <2>3, FS_Surjection
<1>2. IsFiniteSet(S2)
  <2> DEFINE g == [i \in 0..act.inherited - 1 |-> Promised(i)]
  <2>1. g \in Surjection(0..act.inherited - 1, S2)
    BY DEF Surjection
  <2>2. act.inherited - 1 \in Int
    BY <1>0
  <2>3. IsFiniteSet(0..act.inherited - 1)
    BY <2>2, FS_Interval
  <2> HIDE DEF g, S2
  <2> QED BY <2>1, <2>3, FS_Surjection
<1>3. IsFiniteSet(S3)
  <2> DEFINE g == [i \in 1..Len(f) |-> Future(i - 1)]
  <2>1. g \in Surjection(1..Len(f), S3)
    BY <1>0 DEF Surjection
  <2>2. IsFiniteSet(1..Len(f))
    BY <1>0, FS_Interval
  <2> HIDE DEF g, S3
  <2> QED BY <2>1, <2>2, FS_Surjection
<1>4. IsFiniteSet((S1 \ act.old) \cup S2 \cup S3)
  <2>1. IsFiniteSet(S1 \ act.old)
    BY <1>1, FS_Difference
  <2> HIDE DEF S1, S2, S3
  <2>2. IsFiniteSet((S1 \ act.old) \cup S2)
    BY <1>2, <2>1, FS_Union
  <2> QED BY <1>3, <2>2, FS_Union
<1> QED BY <1>4, FS_Singleton DEF Readable

LEMMA UpToFinite == ASSUME NEW size \in Nat PROVE IsFiniteSet(UpTo(size)) /\ UpTo(size) \subseteq Nat
<1>0. 0 \in Int /\ size - 1 \in Int
  OBVIOUS
<1>1. IsFiniteSet(0..size - 1) /\ IsFiniteSet({0})
  BY <1>0, FS_Interval, FS_Singleton
<1>2. IsFiniteSet({0} \cup 0..size - 1)
  BY <1>1, FS_Union
<1> QED BY <1>2 DEF UpTo

LEMMA MenuFinite == ASSUME act \in Actions, NEW f \in Seq(FutureValue)
                    PROVE  IsFiniteSet(Menu(f))
<1> DEFINE R == Readable(f)
           K == UNION {{-1} \cup Allowed(rf, f) : rf \in R}
           M == UpTo(act.misc)
           B == UpTo(act.breaks)
           P == (R \X K) \X (M \X B)
           g == [p \in P |-> [rf |-> p[1][1], resolve |-> p[1][2], misc |-> p[2][1], break |-> p[2][2]]]
           T == {g[p] : p \in P}
<1>1. IsFiniteSet(R) /\ IsFiniteSet(M) /\ IsFiniteSet(B)
  BY ReadableFinite, UpToFinite, Counts
<1>2. IsFiniteSet(K)
  <2> DEFINE S == {{-1} \cup Allowed(rf, f) : rf \in R}
             h == [rf \in R |-> {-1} \cup Allowed(rf, f)]
  <2>1. h \in Surjection(R, S)
    BY DEF Surjection
  <2>2. IsFiniteSet(S)
    BY <1>1, <2>1, FS_Surjection
  <2>3. ASSUME NEW rf \in R PROVE IsFiniteSet({-1} \cup Allowed(rf, f))
    <3>1. IsFiniteSet({-1}) /\ IsFiniteSet(Allowed(rf, f))
      BY AllowedIs, FS_Singleton
    <3> QED BY <3>1, FS_Union
  <2>4. \A Q \in S : IsFiniteSet(Q)
    BY <2>3
  <2>5. K = UNION S
    OBVIOUS
  <2> HIDE DEF S, K
  <2>6. IsFiniteSet(UNION S)
    BY <2>2, <2>4, FS_UNION
  <2> QED BY <2>5, <2>6
<1>3. IsFiniteSet(P)
  <2> HIDE DEF R, K, M, B
  <2>1. IsFiniteSet(R \X K) /\ IsFiniteSet(M \X B)
    BY <1>1, <1>2, FS_Product
  <2> QED BY <2>1, FS_Product
<1>4. IsFiniteSet(T)
  <2> HIDE DEF P
  <2>1. g \in Surjection(P, T)
    BY DEF Surjection
  <2> HIDE DEF g, T
  <2> QED BY <1>3, <2>1, FS_Surjection
<1>5. Menu(f) \subseteq T
  <2> SUFFICES ASSUME NEW c \in Menu(f) PROVE c \in T
    OBVIOUS
  <2>1. c.rf \in R /\ c.resolve \in K /\ c.misc \in M /\ c.break \in B
    BY DEF Menu
  <2> DEFINE p == <<<<c.rf, c.resolve>>, <<c.misc, c.break>>>>
  <2>2. p \in P
    BY <2>1
  <2>3. c = [rf |-> c.rf, resolve |-> c.resolve, misc |-> c.misc, break |-> c.break]
    BY DEF Menu
  <2>4. g[p] = c
    <3> HIDE DEF R, K, M, B
    <3> QED BY <2>2, <2>3
  <2> QED BY <2>2, <2>4
<1> HIDE DEF T
<1> QED BY <1>4, <1>5, FS_Subset
-----------------------------------------------------------------------------
(* An execution reaches the node.                                          *)

\* Which choices an action has.
LEMMA KindIs == ASSUME act \in Actions
                PROVE  /\ act.kind \in {"read", "write", "rmw", "wait", "notify_one", "fixup"}
                       /\ act.kind \in ReadKinds => act.misc = 0 /\ act.breaks = 0
                       /\ act.kind \notin ReadKinds => act.past = 0 /\ act.inherited = 0
                       /\ act.kind = "write" => act.misc = 0 /\ act.breaks = 0
                       /\ act.kind \in {"wait", "notify_one"} => act.breaks = 0
                       /\ act.kind = "fixup" => act.misc = 0
BY ActionsAssumption DEF ReadKinds

\* What is listed and read now is a store in reach, or no store at all.
LEMMA PastListed ==
    ASSUME NEW n, NEW rf \in Listed(n), rf = ReadFrom(n), n.status = "PAST"
    PROVE  n.past_idx \in 0..act.past - 1
<1>1. CASE \E i \in 0..act.past - 1 : rf = Past(i)
  BY <1>1, PastAt
<1>2. CASE \E i \in 0..act.inherited - 1 : rf = Promised(i)
  BY <1>2, PromisedAt
<1>3. CASE \E i \in DOMAIN n.future_values : rf = Future(i - 1)
  BY <1>3, FutureAt
<1> QED BY <1>1, <1>2, <1>3 DEF Listed

LEMMA ReadableListed ==
    ASSUME NEW n, act.kind \in ReadKinds, NEW rf \in Readable(n.future_values)
    PROVE  rf \in Listed(n) /\ \A i : rf = Past(i) => i \in 0..act.past - 1 /\ Past(i) \notin act.old
BY DEF Readable, Listed, Past, Promised, Future

\* A node that was moved to its next store, promise or value, and nothing else.
Moved(m, n) ==
    /\ Sound(m) /\ Ordered(m) /\ m.resolve = {} /\ m.resolve_idx = -1
    /\ m.misc_index = n.misc_index /\ m.break_idx = n.break_idx /\ m.future_values = n.future_values
    /\ \A rf \in Readable(n.future_values) : ReadBefore(rf, m) <=> ReadBefore(rf, n)

LEMMA FetchedPlace ==
    ASSUME act \in Actions, act.kind \in ReadKinds, NEW n, Sound(n), Ordered(n), n.resolve = {}
    PROVE  Moved(Fetched(n), n)
<1>0. n.resolve_idx = -1 /\ Ranges(n)
  BY DEF Sound, Ranges
<1>1. CASE n.status = "PAST" /\ act.past = 0
  <2> DEFINE m == increment_read_from(n).node
  <2>1. /\ Ordered(m) /\ m.resolve = {} /\ m.resolve_idx = -1
        /\ m.misc_index = n.misc_index /\ m.break_idx = n.break_idx
        /\ m.future_values = n.future_values
        /\ \A rf \in Listed(n) : ReadBefore(rf, m) <=> ReadBefore(rf, n) \/ rf = ReadFrom(n)
    BY <1>0, ReadPlace
  <2>2. Sound(m)
    BY <1>0, ReadStep
  <2>3. ASSUME NEW rf \in Listed(n) PROVE rf # ReadFrom(n)
    BY <1>1, <2>3, PastListed
  <2>4. \A rf \in Readable(n.future_values) : rf \in Listed(n)
    BY ReadableListed
  <2>5. Fetched(n) = m
    BY <1>1 DEF Fetched
  <2> HIDE DEF m
  <2> QED BY <2>1, <2>2, <2>3, <2>4, <2>5 DEF Moved
<1>2. CASE ~(n.status = "PAST" /\ act.past = 0)
  BY <1>0, <1>2 DEF Fetched, Moved
<1> QED BY <1>1, <1>2

LEMMA RecentPlace ==
    ASSUME act \in Actions, act.kind \in ReadKinds, NEW n, Sound(n), Ordered(n), n.resolve = {},
           n.status = "PAST" => n.past_idx < act.past
    PROVE  /\ Moved(Recent(n), n)
           /\ Recent(n).status = "PAST" => Past(Recent(n).past_idx) \notin act.old
<1> DEFINE good == {i \in n.past_idx..act.past - 1 : Past(i) \notin act.old}
           first == CHOOSE i \in good : \A j \in good : i <= j
           c == clear_promise_resolutions(n)
<1>0. act.past \in Nat /\ n.past_idx \in Nat /\ n.past_idx <= act.past /\ good \in SUBSET Nat
      /\ n.resolve_idx = -1 /\ Ranges(n)
  BY Counts DEF Sound, Ranges, Nodes
<1>1. Recent(n) = IF n.status # "PAST" \/ n.past_idx \in good THEN n
                  ELSE IF good # {} THEN [c EXCEPT !.past_idx = first]
                  ELSE increment_read_from([n EXCEPT !.past_idx = act.past]).node
  BY Zenon DEF Recent
<1>s. Sound(Recent(n))
  BY RecentStep
<1>l. \A rf \in Readable(n.future_values) : rf \in Listed(n)
  BY ReadableListed
<1>2. CASE n.status # "PAST" \/ n.past_idx \in good
  <2>1. Recent(n) = n
    BY <1>1, <1>2
  <2>2. n.status = "PAST" => Past(n.past_idx) \notin act.old
    BY <1>2
  <2> QED BY <1>0, <2>1, <2>2 DEF Moved
<1>3. CASE n.status = "PAST" /\ n.past_idx \notin good /\ good # {}
  <2>1. first \in good /\ \A j \in good : first <= j
    <3> HIDE DEF good
    <3>1. \E i \in good : \A j \in good : i <= j
      BY <1>0, <1>3, Least
    <3> QED BY <3>1
  <2>2. first \in Nat /\ first < act.past /\ n.past_idx <= first /\ Past(first) \notin act.old
    <3> HIDE DEF first
    <3>1. first \in n.past_idx..act.past - 1 /\ Past(first) \notin act.old
      BY <2>1
    <3> QED BY <1>0, <3>1
  <2>3. /\ SamePlace(c, n) /\ c.resolve = {} /\ c.resolve_idx = -1 /\ c.misc_index = n.misc_index
        /\ c.break_idx = n.break_idx /\ c.future_values = n.future_values /\ Ranges(c)
    BY <1>0, ClearFields, ClearStep
  <2>4. Recent(n) = [c EXCEPT !.past_idx = first]
    BY <1>1, <1>3
  <2>a. ASSUME NEW i \in Int, n.past_idx <= i, i < first PROVE Past(i) \in act.old
    <3>1. i \in n.past_idx..act.past - 1
      BY <1>0, <2>2, <2>a
    <3>2. i \notin good
      BY <1>0, <2>1, <2>2, <2>a
    <3> QED BY <3>1, <3>2
  <2> HIDE DEF c, first
  <2> DEFINE m == [c EXCEPT !.past_idx = first]
  <2>5. /\ m.past_idx = first /\ m.status = c.status /\ m.promise_idx = c.promise_idx
        /\ m.future_values = c.future_values /\ m.future_index = c.future_index
        /\ m.resolve = c.resolve /\ m.resolve_idx = c.resolve_idx
        /\ m.misc_index = c.misc_index /\ m.break_idx = c.break_idx
    BY <2>3 DEF Sound, Ranges, Nodes
  <2> HIDE DEF m, good
  <2>6. Ordered(m)
    BY <1>3, <2>3, <2>5 DEF Ordered, SamePlace
  <2>7. ASSUME NEW rf \in Readable(n.future_values) PROVE ReadBefore(rf, m) <=> ReadBefore(rf, n)
    <3>1. ASSUME NEW i \in 0..act.past - 1, rf = Past(i) PROVE i < first <=> i < n.past_idx
      <4>1. Past(i) \notin act.old
        BY <3>1, ReadableListed
      <4> QED BY <1>0, <2>2, <2>a, <4>1
    <3>2. CASE \E i \in 0..act.past - 1 : rf = Past(i)
      BY <2>5, <3>1, <3>2, PastAt
    <3>3. CASE \E i \in 0..act.inherited - 1 : rf = Promised(i)
      BY <2>3, <2>5, <3>3, PromisedAt DEF SamePlace
    <3>4. CASE \E i \in DOMAIN n.future_values : rf = Future(i - 1)
      BY <2>3, <2>5, <3>4, FutureAt DEF SamePlace
    <3> QED BY <1>l, <3>2, <3>3, <3>4 DEF Listed
  <2>8. Recent(n) = m
    BY <2>4 DEF m
  <2> QED BY <1>s, <2>2, <2>3, <2>5, <2>6, <2>7, <2>8 DEF Moved
<1>4. CASE n.status = "PAST" /\ n.past_idx \notin good /\ good = {}
  <2> DEFINE k == [n EXCEPT !.past_idx = act.past]
             m == increment_read_from(k).node
  <2>1. k \in Nodes
    BY <1>0 DEF Sound, Ranges, Nodes
  <2>2. /\ k.past_idx = act.past /\ k.status = n.status /\ k.promise_idx = n.promise_idx
        /\ k.future_values = n.future_values /\ k.future_index = n.future_index
        /\ k.resolve = n.resolve /\ k.resolve_idx = n.resolve_idx
        /\ k.misc_index = n.misc_index /\ k.break_idx = n.break_idx
    BY DEF Sound, Ranges, Nodes
  <2>3. Recent(n) = m
    BY <1>1, <1>4
  <2> HIDE DEF k
  <2>4. Ranges(k)
    BY <1>0, <1>4, <2>1, <2>2 DEF Sound, Ranges
  <2>5. Ordered(k)
    BY <1>4, <2>2 DEF Ordered
  <2>6. /\ Ordered(m) /\ m.resolve = {} /\ m.resolve_idx = -1
        /\ m.misc_index = k.misc_index /\ m.break_idx = k.break_idx
        /\ m.future_values = k.future_values
        /\ \A rf \in Listed(k) : ReadBefore(rf, m) <=> ReadBefore(rf, k) \/ rf = ReadFrom(k)
    BY <2>4, <2>5, ReadPlace
  <2>7. Listed(k) = Listed(n)
    BY <2>2 DEF Listed
  <2>8. ASSUME NEW rf \in Listed(k) PROVE rf # ReadFrom(k)
    BY <1>0, <1>4, <2>2, <2>8, PastListed
  <2>s. m.status = "PAST" => FALSE
    <3>1. Ranges(m)
      BY <1>s, <2>3 DEF Sound
    <3>2. m.status = "PAST" => m.past_idx < act.past
      BY <2>4, ReadStep
    <3> DEFINE d == clear_promise_resolutions(k)
    <3>3. Ranges(d) /\ d.past_idx = act.past
      BY <2>2, <2>4, ClearStep
    <3>4. m = NextRead(d).node
      BY DEF increment_read_from
    <3> HIDE DEF d, m
    <3> QED BY <1>0, <3>2, <3>3, <3>4, NextReadFields
  <2> HIDE DEF m
  <2>9. ASSUME NEW rf \in Readable(n.future_values) PROVE ReadBefore(rf, m) <=> ReadBefore(rf, n)
    <3>0. ReadBefore(rf, m) <=> ReadBefore(rf, k)
      BY <1>l, <2>6, <2>7, <2>8
    <3>1. ASSUME NEW i \in 0..act.past - 1, rf = Past(i) PROVE i < act.past <=> i < n.past_idx
      <4>1. Past(i) \notin act.old
        BY <3>1, ReadableListed
      <4>2. ~(n.past_idx <= i)
        BY <1>0, <1>4, <4>1
      <4> QED BY <1>0, <4>2
    <3>2. CASE \E i \in 0..act.past - 1 : rf = Past(i)
      BY <2>2, <3>0, <3>1, <3>2, PastAt
    <3>3. CASE \E i \in 0..act.inherited - 1 : rf = Promised(i)
      BY <2>2, <3>0, <3>3, PromisedAt
    <3>4. CASE \E i \in DOMAIN n.future_values : rf = Future(i - 1)
      BY <2>2, <3>0, <3>4, FutureAt
    <3> QED BY <1>l, <3>2, <3>3, <3>4 DEF Listed
  <2> QED BY <1>s, <2>2, <2>3, <2>6, <2>9, <2>s DEF Moved
<1> QED BY <1>2, <1>3, <1>4

\* What process_read and compute_promises do to the node: it gets to its next
\* choice, none is passed over, and doing it again changes nothing.
LEMMA ProcessedPlace ==
    ASSUME act \in Actions, NEW n, Sound(n), Ordered(n), Ready(n)
    PROVE  LET m == Processed(n)
           IN  /\ Ordered(m) /\ m.future_values = n.future_values
               /\ \A c \in Menu(n.future_values) : Before(c, m) <=> Before(c, n)
               /\ Settled(m) \/ (act.kind \in ReadKinds /\ m.status = "NONE" /\ m.resolve = {})
               /\ Settled(n) => m = n
<1>1. CASE act.kind \notin ReadKinds
  <2>1. Processed(n) = n
    BY <1>1 DEF Processed, ReadKinds
  <2> QED BY <1>1, <2>1 DEF Ready
<1>2. CASE act.kind \in ReadKinds /\ Settled(n)
  <2>1. Fetched(n) = n
    BY <1>2, Counts DEF Fetched, Settled, Sound, Ranges
  <2>2. Recent(n) = n
    BY <1>2, Counts DEF Recent, Settled, Sound, Ranges
  <2>3. n = [n EXCEPT !.resolve = n.resolve]
    BY DEF Sound, Ranges, Nodes
  <2>4. act.kind = "rmw" => n.resolve = Resolvable(ReadFrom(n), n.future_values)
    BY <1>2 DEF Settled, Allowed, Current
  <2>5. Processed(n) = IF act.kind = "rmw" /\ n.status # "NONE"
                       THEN [n EXCEPT !.resolve = n.resolve \cup Resolvable(ReadFrom(n), n.future_values)]
                       ELSE n
    BY <1>2, <2>1, <2>2 DEF Processed
  <2>6. act.kind = "rmw" => n.resolve \cup Resolvable(ReadFrom(n), n.future_values) = n.resolve
    BY <2>4
  <2>7. Processed(n) = n
    BY <2>3, <2>5, <2>6
  <2> QED BY <1>2, <2>7
<1>3. CASE act.kind \in ReadKinds /\ ~Settled(n)
  <2> DEFINE a == Fetched(n)
             r == Recent(a)
             more == Resolvable(ReadFrom(r), r.future_values)
             m == Processed(n)
  <2>0. Counted(n) /\ n.status # "NONE" /\ n.resolve = {}
    BY <1>3 DEF Ready
  <2>1. Moved(a, n) /\ (a.status = "PAST" => a.past_idx < act.past)
    BY <1>3, <2>0, FetchedPlace, FetchedStep
  <2>2. Moved(r, a) /\ (r.status = "PAST" => Past(r.past_idx) \notin act.old /\ r.past_idx < act.past)
    <3>1. Sound(a) /\ Ordered(a) /\ a.resolve = {}
      BY <2>1 DEF Moved
    <3> HIDE DEF a
    <3> QED BY <1>3, <2>1, <3>1, RecentPlace, RecentStep
  <2>3. m = IF act.kind = "rmw" /\ r.status # "NONE" THEN [r EXCEPT !.resolve = r.resolve \cup more] ELSE r
    BY <1>3 DEF Processed
  <2> HIDE DEF a, r, more
  <2>4. Moved(r, n)
    BY <2>1, <2>2 DEF Moved
  <2>5. /\ SamePlace(m, r) /\ m.resolve_idx = -1 /\ m.misc_index = n.misc_index
        /\ m.break_idx = n.break_idx /\ m.future_values = n.future_values
        /\ m.resolve = IF act.kind = "rmw" /\ r.status # "NONE" THEN more ELSE {}
    <3> DEFINE k == [r EXCEPT !.resolve = r.resolve \cup more]
    <3>1. r \in Nodes /\ r.resolve = {} /\ r.resolve_idx = -1 /\ r.misc_index = n.misc_index
          /\ r.break_idx = n.break_idx /\ r.future_values = n.future_values
      BY <2>4 DEF Moved, Sound, Ranges
    <3>2. SamePlace(k, r) /\ k.resolve = more /\ k.resolve_idx = -1 /\ k.misc_index = n.misc_index
          /\ k.break_idx = n.break_idx /\ k.future_values = n.future_values
      BY <3>1 DEF SamePlace, Nodes
    <3> HIDE DEF k, m
    <3>3. m = IF act.kind = "rmw" /\ r.status # "NONE" THEN k ELSE r
      BY <2>3 DEF k
    <3> QED BY <3>1, <3>2, <3>3 DEF SamePlace
  <2> HIDE DEF m
  <2>6. /\ Ordered(m) <=> Ordered(r)
        /\ \A rf : ReadBefore(rf, m) <=> ReadBefore(rf, r)
        /\ ReadFrom(m) = ReadFrom(r)
    BY <2>5, SamePlaceIs
  <2>7. ASSUME NEW c \in Menu(n.future_values) PROVE Before(c, m) <=> Before(c, n)
    <3>1. c.rf \in Readable(n.future_values) /\ c.resolve \in Nat \cup {-1}
      BY AllowedIs DEF Menu
    <3>2. ReadBefore(c.rf, m) <=> ReadBefore(c.rf, n)
      BY <2>4, <2>6, <3>1 DEF Moved
    <3>3. m.resolve_idx = -1 /\ n.resolve_idx = -1
      BY <2>0, <2>5 DEF Sound, Ranges
    <3>4. ~(c.resolve < -1)
      BY <3>1
    <3> QED BY <2>5, <3>2, <3>3, <3>4 DEF Before
  <2>8. Settled(m) \/ (m.status = "NONE" /\ m.resolve = {})
    <3>1. CASE r.status = "NONE"
      BY <2>5, <3>1 DEF SamePlace
    <3>2. CASE r.status # "NONE"
      <4>1. Counted(m)
        BY <2>0, <2>5 DEF Counted
      <4>2. m.resolve = Allowed(Current(m), m.future_values)
        BY <1>3, <2>4, <2>5, <2>6, <3>2 DEF Allowed, Current, more, ReadKinds, Moved
      <4>3. m.status = r.status /\ m.past_idx = r.past_idx
        BY <2>5 DEF SamePlace
      <4>4. m.status = "PAST" => m.past_idx < act.past /\ Past(m.past_idx) \notin act.old
        BY <2>2, <4>3, Zenon
      <4> QED BY <3>2, <4>1, <4>2, <4>3, <4>4 DEF Settled
    <3> QED BY <3>1, <3>2
  <2>9. Ordered(m) /\ m.future_values = n.future_values
    BY <2>4, <2>5, <2>6 DEF Moved
  <2> QED BY <1>3, <2>7, <2>8, <2>9 DEF m
<1> QED BY <1>1, <1>2, <1>3

\* A node at which an execution may go on hands out a choice from the menu,
\* for the first time.
LEMMA CurrentIsNew ==
    ASSUME act \in Actions, NEW n, Sound(n), Ordered(n), Settled(n)
    PROVE  Choice(n) \in Menu(n.future_values) /\ ~Before(Choice(n), n)
<1> DEFINE c == Choice(n)
<1>1. /\ c.rf = Current(n) /\ c.resolve = n.resolve_idx /\ c.misc = n.misc_index /\ c.break = n.break_idx
      /\ c = [rf |-> Current(n), resolve |-> n.resolve_idx, misc |-> n.misc_index, break |-> n.break_idx]
  BY DEF Choice, Current
<1>2. n \in Nodes /\ DOMAIN n.future_values = 1..Len(n.future_values) /\ Len(n.future_values) \in Nat
  BY DEF Sound, Ranges, Nodes
<1>3. Current(n) \in Readable(n.future_values) /\ ~ReadBefore(Current(n), n)
  <2>1. CASE act.kind \notin ReadKinds
    BY <2>1, NoReadAt DEF Current, Readable
  <2>2. CASE act.kind \in ReadKinds /\ n.status = "PAST"
    <3>1. n.past_idx \in 0..act.past - 1 /\ Past(n.past_idx) \notin act.old
      BY <2>2, Counts DEF Settled, Sound, Ranges
    <3>2. Current(n) = Past(n.past_idx)
      BY <2>2 DEF Current, ReadFrom
    <3> QED BY <2>2, <3>1, <3>2, PastAt DEF Readable
  <2>3. CASE act.kind \in ReadKinds /\ n.status = "PROMISE"
    <3>1. n.promise_idx \in 0..act.inherited - 1
      BY <2>3 DEF Sound, Ranges
    <3>2. Current(n) = Promised(n.promise_idx)
      BY <2>3 DEF Current, ReadFrom
    <3> QED BY <2>3, <3>1, <3>2, PromisedAt DEF Readable
  <2>4. CASE act.kind \in ReadKinds /\ n.status = "FUTURE"
    <3>1. n.future_index + 1 \in 1..Len(n.future_values) /\ (n.future_index + 1) - 1 = n.future_index
      BY <1>2, <2>4 DEF Sound, Ranges
    <3>2. Current(n) = Future(n.future_index)
      BY <2>4 DEF Current, ReadFrom
    <3>3. Future(n.future_index) \in {Future(i - 1) : i \in DOMAIN n.future_values}
      BY <1>2, <3>1
    <3> QED BY <2>4, <3>2, <3>3, FutureAt, <1>2 DEF Readable, Nodes
  <2> QED BY <2>1, <2>2, <2>3, <2>4, <1>2 DEF Settled, Nodes
<1>4. n.resolve_idx \in Int /\ n.misc_index \in Int /\ n.break_idx \in Int
      /\ n.resolve_idx \in {-1} \cup Allowed(Current(n), n.future_values)
      /\ n.misc_index \in UpTo(act.misc) /\ n.break_idx \in UpTo(act.breaks)
  BY <1>2 DEF Sound, Ranges, Nodes, Settled, Counted
<1> HIDE DEF c
<1>5. c \in Menu(n.future_values)
  BY <1>1, <1>3, <1>4 DEF Menu
<1>6. ~Before(c, n)
  BY <1>1, <1>3, <1>4 DEF Before
<1> QED BY <1>5, <1>6 DEF c
-----------------------------------------------------------------------------
(* The search diverges at the node.                                        *)

\* A choice on the menu and its place.
LEMMA MenuPlace ==
    ASSUME act \in Actions, NEW n, Sound(n), NEW c \in Menu(n.future_values)
    PROVE  /\ c.rf \in Readable(n.future_values) /\ c.misc \in Nat /\ c.break \in Nat
           /\ c.misc < act.misc \/ c.misc = 0
           /\ c.break < act.breaks \/ c.break = 0
           /\ c.resolve \in {-1} \cup Allowed(c.rf, n.future_values) /\ c.resolve \in Int /\ c.resolve >= -1
           /\ c = Choice(n) <=> /\ c.rf = Current(n) /\ c.resolve = n.resolve_idx
                                /\ c.misc = n.misc_index /\ c.break = n.break_idx
<1>1. c = [rf |-> c.rf, resolve |-> c.resolve, misc |-> c.misc, break |-> c.break]
  BY DEF Menu
<1>2. c = Choice(n) <=> /\ c.rf = Current(n) /\ c.resolve = n.resolve_idx
                        /\ c.misc = n.misc_index /\ c.break = n.break_idx
  BY <1>1 DEF Choice, Current
<1>3. c.rf \in Readable(n.future_values) /\ c.resolve \in {-1} \cup Allowed(c.rf, n.future_values)
      /\ c.misc \in UpTo(act.misc) /\ c.break \in UpTo(act.breaks)
  BY DEF Menu
<1>4. c.resolve \in Nat \cup {-1}
  BY <1>3, AllowedIs
<1>5. c.misc \in Nat /\ c.break \in Nat /\ (c.misc < act.misc \/ c.misc = 0)
      /\ (c.break < act.breaks \/ c.break = 0)
  BY <1>3, Counts DEF UpTo
<1> QED BY <1>2, <1>3, <1>4, <1>5

\* What is on the menu of a node with its last thing to read.
LEMMA LastRead ==
    ASSUME act \in Actions, act.kind \in ReadKinds, NEW n, Ranges(n), Ordered(n), read_from_empty(n),
           NEW rf \in Readable(n.future_values)
    PROVE  ReadBefore(rf, n) \/ rf = ReadFrom(n)
<1> DEFINE c == clear_promise_resolutions(n)
           m == NextRead(c).node
<1>0. n.future_values \in Seq(FutureValue) /\ DOMAIN n.future_values = 1..Len(n.future_values)
      /\ Len(n.future_values) \in Nat
  BY DEF Ranges, Nodes
<1>1. Ranges(c) /\ c.past_idx = n.past_idx /\ c.promise_idx = n.promise_idx
      /\ c.future_index = n.future_index /\ c.future_values = n.future_values
  BY ClearStep, ClearFields DEF SamePlace
<1>2. n.past_idx + 1 >= act.past /\ n.promise_idx + 1 >= act.inherited
      /\ n.future_index + 1 >= Len(n.future_values)
  BY DEF read_from_empty, read_from_past_empty, read_from_promise_empty, future_value_empty
<1>3. n.past_idx \in Int /\ n.promise_idx \in Int /\ n.future_index \in Int
      /\ act.past \in Nat /\ act.inherited \in Nat
  BY Counts DEF Ranges, Nodes
<1>4. m.past_idx = act.past /\ m.promise_idx = act.inherited /\ m.future_index = Len(n.future_values)
  <2> HIDE DEF c
  <2> QED BY <1>1, <1>2, <1>3, <1>0, NextReadFields
<1>5. increment_read_from(n).node = m
  BY DEF increment_read_from
<1>6. rf \in Listed(n)
  BY ReadableListed
<1>7. ReadBefore(rf, m) <=> ReadBefore(rf, n) \/ rf = ReadFrom(n)
  BY <1>5, <1>6, ReadPlace
<1> HIDE DEF m
<1>8. ReadBefore(rf, m)
  <2>1. CASE \E i \in 0..act.past - 1 : rf = Past(i)
    BY <1>3, <1>4, <2>1, PastAt
  <2>2. CASE \E i \in 0..act.inherited - 1 : rf = Promised(i)
    BY <1>3, <1>4, <2>2, PromisedAt
  <2>3. CASE \E i \in DOMAIN n.future_values : rf = Future(i - 1)
    <3>1. PICK i \in 1..Len(n.future_values) : rf = Future(i - 1)
      BY <1>0, <2>3
    <3>2. i - 1 < m.future_index
      BY <1>0, <1>4, <3>1
    <3> QED BY <3>1, <3>2, FutureAt
  <2> QED BY <1>6, <2>1, <2>2, <2>3 DEF Listed
<1> QED BY <1>7, <1>8

\* Nothing is left when the choice at the node's place is the last one.
LEMMA LastChoice ==
    ASSUME act \in Actions, NEW n, Sound(n), Ordered(n), Settled(n), ~ChoiceLeft(n),
           NEW c \in Menu(n.future_values)
    PROVE  Before(c, n) \/ c = Choice(n)
<1>1. misc_empty(n) /\ read_from_empty(n) /\ promise_empty(n) /\ relseq_break_empty(n)
  BY DEF ChoiceLeft
<1>2. Ranges(n) /\ n \in Nodes /\ n.misc_index \in Int /\ n.break_idx \in Int /\ n.resolve_idx \in Int
      /\ n.resolve = Allowed(Current(n), n.future_values) /\ Counted(n)
      /\ act.misc \in Nat /\ act.breaks \in Nat
  BY Counts DEF Sound, Ranges, Nodes, Settled
<1>3. c.rf \in Readable(n.future_values) /\ c.misc \in Nat /\ c.break \in Nat
      /\ c.resolve \in {-1} \cup Allowed(c.rf, n.future_values) /\ c.resolve \in Int
  BY MenuPlace
<1>4. ReadBefore(c.rf, n) \/ c.rf = Current(n)
  <2>1. CASE act.kind \in ReadKinds
    BY <1>1, <1>2, <1>3, <2>1, LastRead DEF Current
  <2>2. CASE act.kind \notin ReadKinds
    BY <1>3, <2>2 DEF Readable, Current
  <2> QED BY <2>1, <2>2
<1>5. c.rf = Current(n) => c.resolve <= n.resolve_idx
  <2>1. n.resolve_idx >= -1
    BY <1>2 DEF Ranges, Nodes
  <2>2. \A k \in n.resolve : k <= n.resolve_idx
    BY <1>1 DEF promise_empty
  <2>3. ASSUME c.rf = Current(n) PROVE c.resolve = -1 \/ c.resolve \in n.resolve
    BY <1>2, <1>3, <2>3
  <2> QED BY <1>2, <2>1, <2>2, <2>3
<1>6. c.misc <= n.misc_index
  BY <1>1, <1>2, <1>3, MenuPlace DEF misc_empty, Counted, UpTo
<1>7. c.break <= n.break_idx
  BY <1>1, <1>2, <1>3, MenuPlace DEF relseq_break_empty, Counted, UpTo
<1>8. ASSUME ~Before(c, n)
      PROVE  c.rf = Current(n) /\ c.resolve = n.resolve_idx /\ c.misc = n.misc_index /\ c.break = n.break_idx
  BY <1>2, <1>3, <1>4, <1>5, <1>6, <1>7, <1>8 DEF Before
<1> QED BY <1>8, MenuPlace

\* The fields each increment changes.
LEMMA MiscFields ==
    ASSUME act \in Actions, NEW n, Sound(n)
    PROVE  LET m == increment_misc(n).node
           IN  /\ SamePlace(m, n) /\ m.resolve = n.resolve /\ m.resolve_idx = n.resolve_idx
               /\ m.break_idx = n.break_idx /\ m.future_values = n.future_values
               /\ m.misc_index = Increment(n.misc_index, act.misc)
BY DEF increment_misc, To, Sound, Ranges, Nodes, SamePlace

LEMMA PromiseFields ==
    ASSUME NEW n, Sound(n), increment_promise(n).ok
    PROVE  LET m == increment_promise(n).node
           IN  /\ SamePlace(m, n) /\ m.resolve = n.resolve /\ m.misc_index = n.misc_index
               /\ m.break_idx = n.break_idx /\ m.future_values = n.future_values
               /\ m.resolve_idx \in n.resolve /\ m.resolve_idx > n.resolve_idx
               /\ \A k \in n.resolve : k > n.resolve_idx => m.resolve_idx <= k
<1> DEFINE later == {k \in n.resolve : k > n.resolve_idx}
           k0 == CHOOSE k \in later : \A j \in later : k <= j
<1>1. later # {} /\ increment_promise(n) = To(TRUE, [n EXCEPT !.resolve_idx = k0])
  BY DEF increment_promise, To
<1>2. later \in SUBSET Nat
  BY DEF Sound, Ranges, Nodes
<1>3. k0 \in later /\ \A j \in later : k0 <= j
  <2> HIDE DEF later
  <2>1. \E k \in later : \A j \in later : k <= j
    BY <1>1, <1>2, Least
  <2> QED BY <2>1
<1> HIDE DEF k0
<1>4. increment_promise(n).node = [n EXCEPT !.resolve_idx = k0]
  BY <1>1 DEF To
<1> QED BY <1>3, <1>4 DEF Sound, Ranges, Nodes, SamePlace

LEMMA BreakFields ==
    ASSUME act \in Actions, NEW n, Sound(n)
    PROVE  LET m == increment_relseq_break(n).node
           IN  /\ SamePlace(m, n) /\ m.resolve = n.resolve /\ m.resolve_idx = n.resolve_idx
               /\ m.misc_index = n.misc_index /\ m.future_values = n.future_values
               /\ m.break_idx = Increment(n.break_idx, act.breaks)
BY DEF increment_relseq_break, To, Sound, Ranges, Nodes, SamePlace

\* The node is moved to its next choice: what comes before it is what came
\* before the last one, and the last one.
Advanced(m, n) ==
    /\ Ordered(m) /\ Ready(m)
    /\ \A c \in Menu(n.future_values) : Before(c, m) <=> Before(c, n) \/ c = Choice(n)

LEMMA NextMisc ==
    ASSUME act \in Actions, NEW n, Sound(n), Ordered(n), Settled(n), increment_misc(n).ok
    PROVE  Advanced(increment_misc(n).node, n)
<1> DEFINE m == increment_misc(n).node
<1>0. act.misc \in Nat /\ n.misc_index \in Int /\ ~misc_empty(n)
  BY MiscStep, Counts DEF Sound, Ranges, Nodes
<1>1. /\ SamePlace(m, n) /\ m.resolve = n.resolve /\ m.resolve_idx = n.resolve_idx
      /\ m.break_idx = n.break_idx /\ m.future_values = n.future_values
      /\ m.misc_index = n.misc_index + 1 /\ n.misc_index + 1 < act.misc
  BY <1>0, MiscFields DEF misc_empty, Increment
<1> HIDE DEF m
<1>2. act.kind \in {"wait", "notify_one"} /\ act.kind \notin ReadKinds /\ act.breaks = 0
  <2>1. act.misc # 0
    BY <1>0, <1>1 DEF Sound, Ranges
  <2> QED BY <2>1, KindIs, ActionsAssumption DEF ReadKinds
<1>3. n.resolve = {} /\ n.resolve_idx = -1 /\ n.break_idx = 0 /\ Current(n) = NoRead /\ Current(m) = NoRead
      /\ n.future_values = <<>> /\ n.misc_index \in Nat
  BY <1>2 DEF Settled, Allowed, Sound, Ranges, Current, Counted, UpTo, Nodes
<1>4. Ordered(m)
  BY <1>1, SamePlaceIs
<1>5. Settled(m)
  BY <1>0, <1>1, <1>2, <1>3 DEF Settled, Allowed, Counted, UpTo, Current
<1>6. ASSUME NEW c \in Menu(n.future_values) PROVE Before(c, m) <=> Before(c, n) \/ c = Choice(n)
  <2>1. c.rf = NoRead /\ c.resolve = -1 /\ c.break = 0 /\ c.misc \in Nat
    BY <1>2, MenuPlace DEF Readable, Allowed
  <2>2. c = Choice(n) <=> c.misc = n.misc_index
    BY <1>3, <2>1, MenuPlace
  <2>3. Before(c, m) <=> c.misc < n.misc_index + 1
    BY <1>1, <1>3, <2>1, NoReadAt DEF Before
  <2>4. Before(c, n) <=> c.misc < n.misc_index
    BY <1>1, <1>3, <2>1, NoReadAt DEF Before
  <2> QED BY <1>3, <2>1, <2>2, <2>3, <2>4
<1> QED BY <1>4, <1>5, <1>6 DEF Advanced, Ready, m

LEMMA NextResolve ==
    ASSUME act \in Actions, NEW n, Sound(n), Ordered(n), Settled(n), increment_promise(n).ok
    PROVE  Advanced(increment_promise(n).node, n)
<1> DEFINE m == increment_promise(n).node
<1>1. /\ SamePlace(m, n) /\ m.resolve = n.resolve /\ m.misc_index = n.misc_index
      /\ m.break_idx = n.break_idx /\ m.future_values = n.future_values
      /\ m.resolve_idx \in n.resolve /\ m.resolve_idx > n.resolve_idx
      /\ \A k \in n.resolve : k > n.resolve_idx => m.resolve_idx <= k
  BY PromiseFields
<1> HIDE DEF m
<1>2. n.resolve = Allowed(Current(n), n.future_values) /\ n.resolve \subseteq Nat
      /\ n.resolve_idx \in Int /\ n.resolve_idx >= -1 /\ Counted(n)
  BY DEF Settled, Sound, Ranges, Nodes
<1>3. act.kind \in {"write", "rmw"} /\ act.misc = 0 /\ act.breaks = 0
  <2>1. act.kind \in {"write", "rmw"}
    BY <1>1, <1>2 DEF Allowed
  <2> QED BY <2>1, KindIs DEF ReadKinds
<1>4. n.misc_index = 0 /\ n.break_idx = 0
  BY <1>2, <1>3 DEF Counted, UpTo
<1>5. /\ Ordered(m) /\ Current(m) = Current(n)
      /\ \A rf : ReadBefore(rf, m) <=> ReadBefore(rf, n)
  BY <1>1, SamePlaceIs DEF Current
<1>6. Settled(m)
  BY <1>1, <1>5 DEF Settled, Counted, SamePlace
<1>7. ASSUME NEW c \in Menu(n.future_values) PROVE Before(c, m) <=> Before(c, n) \/ c = Choice(n)
  <2>1. c.misc = 0 /\ c.break = 0 /\ c.resolve \in Int
    BY <1>3, MenuPlace
  <2>2. c = Choice(n) <=> c.rf = Current(n) /\ c.resolve = n.resolve_idx
    BY <1>4, <2>1, MenuPlace
  <2>3. ASSUME c.rf = Current(n) PROVE c.resolve < m.resolve_idx <=> c.resolve <= n.resolve_idx
    <3>1. c.resolve = -1 \/ c.resolve \in n.resolve
      BY <1>2, <2>3, MenuPlace
    <3>2. m.resolve_idx \in Nat
      BY <1>1, <1>2
    <3> QED BY <1>1, <1>2, <2>1, <3>1, <3>2
  <2>4. Before(c, m) <=> ReadBefore(c.rf, n) \/ (c.rf = Current(n) /\ c.resolve < m.resolve_idx)
    BY <1>1, <1>4, <1>5, <2>1 DEF Before
  <2>5. Before(c, n) <=> ReadBefore(c.rf, n) \/ (c.rf = Current(n) /\ c.resolve < n.resolve_idx)
    BY <1>4, <2>1 DEF Before
  <2>6. c.resolve <= n.resolve_idx <=> c.resolve < n.resolve_idx \/ c.resolve = n.resolve_idx
    BY <1>2, <2>1
  <2> QED BY <2>2, <2>3, <2>4, <2>5, <2>6
<1> QED BY <1>5, <1>6, <1>7 DEF Advanced, Ready, m

LEMMA NextToRead ==
    ASSUME act \in Actions, NEW n, Sound(n), Ordered(n), Settled(n), promise_empty(n),
           NEW k, Sound(k), k.resolve = n.resolve, k.resolve_idx = n.resolve_idx, SamePlace(k, n),
           k.misc_index = Increment(n.misc_index, act.misc), k.break_idx = n.break_idx,
           k.future_values = n.future_values, increment_read_from(k).ok
    PROVE  Advanced(increment_read_from(k).node, n)
<1> DEFINE m == increment_read_from(k).node
<1>1. Ordered(k) /\ (\A rf : ReadBefore(rf, k) <=> ReadBefore(rf, n)) /\ ReadFrom(k) = ReadFrom(n) /\ Ranges(k)
  BY SamePlaceIs DEF Sound
<1>2. /\ Ordered(m) /\ m.resolve = {} /\ m.resolve_idx = -1
      /\ m.misc_index = k.misc_index /\ m.break_idx = n.break_idx
      /\ m.future_values = n.future_values
      /\ \A rf \in Listed(k) : ReadBefore(rf, m) <=> ReadBefore(rf, k) \/ rf = ReadFrom(k)
  BY <1>1, ReadPlace
<1>3. m.status # "NONE" /\ ~read_from_empty(k)
  BY <1>1, ReadStep
<1> HIDE DEF m
<1>4. act.kind \in ReadKinds
  <2> SUFFICES ASSUME act.kind \notin ReadKinds PROVE FALSE
    OBVIOUS
  <2>1. act.past = 0 /\ act.inherited = 0 /\ k.future_values = <<>>
    BY KindIs DEF Settled, Counted
  <2>2. k.past_idx >= 0 /\ k.promise_idx >= -1 /\ k.future_index >= -1
        /\ k.past_idx \in Int /\ k.promise_idx \in Int /\ k.future_index \in Int /\ Len(k.future_values) = 0
    BY <1>1, <2>1 DEF Ranges, Nodes
  <2> QED BY <1>3, <2>1, <2>2 DEF read_from_empty, read_from_past_empty, read_from_promise_empty,
                               future_value_empty
<1>5. act.misc = 0 /\ act.breaks = 0 /\ n.misc_index = 0 /\ n.break_idx = 0 /\ k.misc_index = 0
  BY <1>4, KindIs DEF Settled, Counted, UpTo, Increment
<1>6. Ready(m)
  BY <1>2, <1>3, <1>4, <1>5 DEF Ready, Counted, UpTo
<1>7. ASSUME NEW c \in Menu(n.future_values) PROVE Before(c, m) <=> Before(c, n) \/ c = Choice(n)
  <2>1. c.misc = 0 /\ c.break = 0 /\ c.resolve \in Int /\ c.resolve >= -1 /\ c.rf \in Readable(n.future_values)
    BY <1>5, MenuPlace
  <2>2. c = Choice(n) <=> c.rf = Current(n) /\ c.resolve = n.resolve_idx
    BY <1>5, <2>1, MenuPlace
  <2>3. ASSUME c.rf = Current(n) PROVE c.resolve <= n.resolve_idx
    <3>1. c.resolve = -1 \/ c.resolve \in n.resolve
      BY <2>3, MenuPlace DEF Settled
    <3>2. n.resolve_idx \in Int /\ n.resolve_idx >= -1
      BY DEF Sound, Ranges, Nodes
    <3> QED BY <3>1, <3>2 DEF promise_empty
  <2>4. Before(c, m) <=> ReadBefore(c.rf, m)
    BY <1>2, <1>5, <2>1 DEF Before
  <2>5. Before(c, n) <=> ReadBefore(c.rf, n) \/ (c.rf = Current(n) /\ c.resolve < n.resolve_idx)
    BY <1>5, <2>1 DEF Before
  <2>6. c.rf \in Listed(k)
    BY <1>4, <2>1, ReadableListed
  <2>7. ReadBefore(c.rf, m) <=> ReadBefore(c.rf, n) \/ c.rf = Current(n)
    BY <1>1, <1>2, <1>4, <2>6 DEF Current
  <2>8. n.resolve_idx \in Int
    BY DEF Sound, Ranges, Nodes
  <2> QED BY <2>1, <2>2, <2>3, <2>4, <2>5, <2>7, <2>8
<1> QED BY <1>2, <1>6, <1>7 DEF Advanced, m

LEMMA NextBreak ==
    ASSUME act \in Actions, NEW n, Sound(n), Settled(n),
           NEW k, Sound(k), Ordered(k), k.resolve_idx = -1, k.resolve = {},
           k.misc_index = Increment(n.misc_index, act.misc), k.break_idx = n.break_idx,
           k.future_values = n.future_values, increment_relseq_break(k).ok
    PROVE  Advanced(increment_relseq_break(k).node, n)
<1> DEFINE m == increment_relseq_break(k).node
<1>0. act.breaks \in Nat /\ n.break_idx \in Int /\ k.break_idx \in Int /\ ~relseq_break_empty(k)
  BY BreakStep, Counts DEF Sound, Ranges, Nodes
<1>1. /\ SamePlace(m, k) /\ m.resolve = {} /\ m.resolve_idx = -1 /\ m.misc_index = k.misc_index
      /\ m.future_values = n.future_values
      /\ m.break_idx = n.break_idx + 1 /\ n.break_idx + 1 < act.breaks
  BY <1>0, BreakFields DEF relseq_break_empty, Increment
<1> HIDE DEF m
<1>2. act.kind = "fixup" /\ act.kind \notin ReadKinds /\ act.misc = 0
  <2>1. act.breaks # 0
    BY <1>0, <1>1 DEF Sound, Ranges
  <2> QED BY <2>1, KindIs, ActionsAssumption DEF ReadKinds
<1>3. n.resolve = {} /\ n.resolve_idx = -1 /\ n.misc_index = 0 /\ k.misc_index = 0
      /\ Current(n) = NoRead /\ Current(m) = NoRead /\ n.future_values = <<>> /\ n.break_idx \in Nat
  BY <1>2 DEF Settled, Allowed, Sound, Ranges, Current, Counted, UpTo, Nodes, Increment
<1>4. Ordered(m)
  BY <1>1, SamePlaceIs
<1>5. Settled(m)
  BY <1>0, <1>1, <1>2, <1>3 DEF Settled, Allowed, Counted, UpTo, Current
<1>6. ASSUME NEW c \in Menu(n.future_values) PROVE Before(c, m) <=> Before(c, n) \/ c = Choice(n)
  <2>1. c.rf = NoRead /\ c.resolve = -1 /\ c.misc = 0 /\ c.break \in Nat
    BY <1>2, MenuPlace DEF Readable, Allowed
  <2>2. c = Choice(n) <=> c.break = n.break_idx
    BY <1>3, <2>1, MenuPlace
  <2>3. Before(c, m) <=> c.break < n.break_idx + 1
    BY <1>1, <1>3, <2>1, NoReadAt DEF Before
  <2>4. Before(c, n) <=> c.break < n.break_idx
    BY <1>1, <1>3, <2>1, NoReadAt DEF Before
  <2> QED BY <1>3, <2>1, <2>2, <2>3, <2>4
<1> QED BY <1>4, <1>5, <1>6 DEF Advanced, Ready, m

\* increment_behaviors goes to the next choice, if there is one.
LEMMA NextChoice ==
    ASSUME act \in Actions, NEW n, Sound(n), Ordered(n)
    PROVE  LET b == increment_behaviors(n)
           IN  /\ b.node.future_values = n.future_values
               /\ b.ok <=> ChoiceLeft(n)
               /\ Settled(n) /\ b.ok => Advanced(b.node, n)
<1> DEFINE misc == increment_misc(n)
           promise == increment_promise(misc.node)
           read_from == increment_read_from(promise.node)
           break == increment_relseq_break(read_from.node)
<1>1. increment_behaviors(n) = IF misc.ok THEN misc ELSE IF promise.ok THEN promise
                               ELSE IF read_from.ok THEN read_from ELSE break
  BY DEF increment_behaviors
<1>2. /\ Sound(misc.node) /\ (misc.ok <=> ~misc_empty(n))
      /\ SamePlace(misc.node, n) /\ misc.node.resolve = n.resolve /\ misc.node.resolve_idx = n.resolve_idx
      /\ misc.node.break_idx = n.break_idx /\ misc.node.future_values = n.future_values
      /\ misc.node.misc_index = Increment(n.misc_index, act.misc)
  BY MiscStep, MiscFields
<1> HIDE DEF misc
<1>3. /\ Sound(promise.node) /\ (promise.ok <=> ~promise_empty(misc.node))
      /\ (~promise.ok => promise.node = misc.node)
  BY <1>2, PromiseStep
<1>4. promise.ok => promise.node.future_values = n.future_values
  BY <1>2, PromiseFields
<1>5. promise_empty(misc.node) <=> promise_empty(n)
  BY <1>2 DEF promise_empty
<1>6. misc.ok => misc.node.future_values = n.future_values
  BY <1>2
<1>7. CASE misc.ok
  <2>1. increment_behaviors(n) = misc
    BY <1>1, <1>7
  <2>2. Settled(n) => Advanced(misc.node, n)
    BY <1>7, NextMisc DEF misc
  <2> QED BY <1>2, <1>7, <2>1, <2>2 DEF ChoiceLeft
<1>8. CASE ~misc.ok /\ promise.ok
  <2>1. increment_behaviors(n) = promise
    BY <1>1, <1>8
  <2>2. ASSUME Settled(n) PROVE Advanced(promise.node, n)
    <3>1. n.resolve # {}
      BY <1>3, <1>5, <1>8 DEF promise_empty
    <3>2. act.misc = 0 /\ n.misc_index = 0
      <4>1. act.kind \in {"write", "rmw"}
        BY <2>2, <3>1 DEF Settled, Allowed
      <4> QED BY <2>2, <4>1, KindIs DEF ReadKinds, Settled, Counted, UpTo
    <3>3. misc.node = n
      <4>1. misc.node = [n EXCEPT !.misc_index = Increment(n.misc_index, act.misc)]
        BY DEF misc, increment_misc, To
      <4>2. Increment(n.misc_index, act.misc) = n.misc_index
        BY <3>2 DEF Increment
      <4> QED BY <4>1, <4>2 DEF Sound, Ranges, Nodes
    <3> QED BY <1>8, <2>2, <3>3, NextResolve
  <2>3. ChoiceLeft(n)
    BY <1>3, <1>5, <1>8 DEF ChoiceLeft
  <2> QED BY <1>4, <1>8, <2>1, <2>2, <2>3
<1>9. CASE ~misc.ok /\ ~promise.ok
  <2> DEFINE k == misc.node
  <2>0. promise.node = k /\ Sound(k) /\ SamePlace(k, n) /\ k.resolve = n.resolve
        /\ k.resolve_idx = n.resolve_idx /\ k.break_idx = n.break_idx /\ k.future_values = n.future_values
        /\ k.misc_index = Increment(n.misc_index, act.misc) /\ promise_empty(n)
    BY <1>2, <1>3, <1>5, <1>9
  <2> HIDE DEF k
  <2>1. Ranges(k) /\ Ordered(k)
    BY <2>0, SamePlaceIs DEF Sound
  <2> DEFINE r == increment_read_from(k)
  <2>2. /\ Sound(r.node) /\ (r.ok <=> ~read_from_empty(k)) /\ r.ok \in BOOLEAN
        /\ r.node.resolve = {} /\ r.node.resolve_idx = -1 /\ Ordered(r.node)
        /\ r.node.misc_index = k.misc_index /\ r.node.break_idx = k.break_idx
        /\ r.node.future_values = k.future_values
    <3>1. r.ok \in BOOLEAN
      BY DEF increment_read_from, NextRead, To
    <3> QED BY <2>1, <3>1, ReadStep, ReadPlace
  <2>3. read_from_empty(k) <=> read_from_empty(n)
    BY <2>0 DEF SamePlace, read_from_empty, read_from_past_empty, read_from_promise_empty, future_value_empty
  <2>4. read_from = r
    BY <2>0
  <2>5. CASE r.ok
    <3>1. increment_behaviors(n) = r
      BY <1>1, <1>9, <2>4, <2>5
    <3>2. Settled(n) => Advanced(r.node, n)
      BY <2>0, <2>5, NextToRead
    <3>3. ChoiceLeft(n)
      BY <2>2, <2>3, <2>5 DEF ChoiceLeft
    <3> HIDE DEF r
    <3> QED BY <2>0, <2>2, <2>5, <3>1, <3>2, <3>3
  <2>6. CASE ~r.ok
    <3> DEFINE s == increment_relseq_break(r.node)
    <3>1. increment_behaviors(n) = s
      BY <1>1, <1>9, <2>4, <2>6
    <3>2. Sound(s.node) /\ (s.ok <=> ~relseq_break_empty(r.node)) /\ s.node.future_values = r.node.future_values
      <4> HIDE DEF r
      <4> QED BY <2>2, BreakStep, BreakFields
    <3>3. relseq_break_empty(r.node) <=> relseq_break_empty(n)
      BY <2>0, <2>2 DEF relseq_break_empty
    <3>4. s.ok <=> ChoiceLeft(n)
      BY <1>2, <1>9, <2>0, <2>2, <2>3, <2>6, <3>2, <3>3 DEF ChoiceLeft
    <3>5. Settled(n) /\ s.ok => Advanced(s.node, n)
      <4>1. r.node.misc_index = Increment(n.misc_index, act.misc) /\ r.node.break_idx = n.break_idx
            /\ r.node.future_values = n.future_values
        BY <2>0, <2>2
      <4> HIDE DEF r
      <4> QED BY <2>2, <4>1, NextBreak
    <3> HIDE DEF s, r
    <3> QED BY <2>0, <2>2, <3>1, <3>2, <3>4, <3>5
  <2> QED BY <2>2, <2>5, <2>6
<1> QED BY <1>7, <1>8, <1>9
-----------------------------------------------------------------------------
(* A later store sends a future value.                                     *)

\* The list grows behind what has been read, and no entry expires earlier; the
\* value is on it, or one that expires about as late, or the list is full.
LEMMA AddFields ==
    ASSUME act \in Actions, NEW n, Sound(n), n.status # "NONE", NEW fv \in FutureValues
    PROVE  LET a == add_future_value(n, fv)
               f == n.future_values
               g == a.node.future_values
           IN  /\ SamePlace(a.node, n) /\ a.node.resolve = n.resolve /\ a.node.resolve_idx = n.resolve_idx
               /\ a.node.misc_index = n.misc_index /\ a.node.break_idx = n.break_idx
               /\ a.ok \in BOOLEAN /\ (~a.ok => a.node = n)
               /\ Len(f) <= Len(g)
               /\ \A i \in DOMAIN f : /\ g[i].value = f[i].value /\ g[i].tid = f[i].tid
                                      /\ g[i].expiration >= f[i].expiration
                                      /\ i - 1 <= n.future_index => g[i] = f[i]
               /\ MaxFutureValues > 0 /\ Len(f) <= MaxFutureValues => Len(g) <= MaxFutureValues
               /\ \/ \E i \in SameValue(a.node, fv) : g[i].expiration + ExpireSlop >= fv.expiration
                  \/ MaxFutureValues > 0 /\ Len(g) >= MaxFutureValues
<1> DEFINE a == add_future_value(n, fv)
           f == n.future_values
           same == SameValue(n, fv)
           last == CHOOSE i \in same : \A j \in same : j <= i
           later == [f EXCEPT ![last].expiration = fv.expiration]
           more == Append(f, fv)
           g == a.node.future_values
           Same == /\ SamePlace(a.node, n) /\ a.node.resolve = n.resolve /\ a.node.resolve_idx = n.resolve_idx
                   /\ a.node.misc_index = n.misc_index /\ a.node.break_idx = n.break_idx
                   /\ a.ok \in BOOLEAN /\ (~a.ok => a.node = n)
           Kept == \A i \in DOMAIN f : /\ g[i].value = f[i].value /\ g[i].tid = f[i].tid
                                       /\ g[i].expiration >= f[i].expiration
                                       /\ i - 1 <= n.future_index => g[i] = f[i]
           Size == /\ Len(f) <= Len(g)
                   /\ MaxFutureValues > 0 /\ Len(f) <= MaxFutureValues => Len(g) <= MaxFutureValues
           Held == \/ \E i \in SameValue(a.node, fv) : g[i].expiration + ExpireSlop >= fv.expiration
                   \/ MaxFutureValues > 0 /\ Len(g) >= MaxFutureValues
<1> SUFFICES Same /\ Kept /\ Size /\ Held
  OBVIOUS
<1>0. fv \in FutureValue /\ fv.expiration \in Nat /\ ExpireSlop \in Nat /\ MaxFutureValues \in Nat
  BY FutureValuesAssumption, OptionsAssumption DEF FutureValue
<1>1. /\ f \in Seq(FutureValue) /\ Len(f) \in Nat /\ DOMAIN f = 1..Len(f)
      /\ n.future_index \in Int /\ n.future_index < Len(f)
  BY DEF Sound, Ranges, Nodes
<1>2. ASSUME NEW i \in DOMAIN f
      PROVE  f[i] \in FutureValue /\ f[i].expiration \in Nat
  <2>1. f[i] \in FutureValue
    BY <1>1, ElementOfSeq
  <2> QED BY <2>1 DEF FutureValue
<1>3. same \in SUBSET (1..Len(f)) /\ \A i \in same : f[i].value = fv.value /\ f[i].tid = fv.tid
  BY <1>1 DEF SameValue
<1>4. \/ a = To(FALSE, n) /\ \E i \in same : fv.expiration <= f[i].expiration
      \/ /\ a = To(TRUE, [n EXCEPT !.future_values = later]) /\ same # {} /\ last - 1 > n.future_index
         /\ \A i \in same : ~(fv.expiration <= f[i].expiration)
      \/ a = To(FALSE, n) /\ same # {} /\ fv.expiration <= f[last].expiration + ExpireSlop
      \/ a = To(FALSE, n) /\ MaxFutureValues > 0 /\ Len(f) >= MaxFutureValues
      \/ /\ a = To(TRUE, [n EXCEPT !.future_values = more])
         /\ ~(MaxFutureValues > 0 /\ Len(f) >= MaxFutureValues)
  BY DEF add_future_value
<1>5. same # {} => last \in same
  <2> SUFFICES ASSUME same # {} PROVE last \in same
    OBVIOUS
  <2> HIDE DEF same
  <2>1. \E i \in same : \A j \in same : j <= i
    BY <1>1, <1>3, Greatest
  <2> QED BY <2>1
<1> HIDE DEF a, last
<1>6. CASE a = To(FALSE, n)
  <2>1. a.node = n /\ a.ok = FALSE
    BY <1>6 DEF To
  <2>2. \/ \E i \in same : f[i].expiration + ExpireSlop >= fv.expiration
        \/ MaxFutureValues > 0 /\ Len(f) >= MaxFutureValues
    <3> SUFFICES ASSUME ~(MaxFutureValues > 0 /\ Len(f) >= MaxFutureValues)
                 PROVE  \E i \in same : f[i].expiration + ExpireSlop >= fv.expiration
      OBVIOUS
    <3>1. CASE \E i \in same : fv.expiration <= f[i].expiration
      <4>1. PICK i \in same : fv.expiration <= f[i].expiration
        BY <3>1
      <4>2. f[i].expiration \in Nat
        BY <1>1, <1>2, <1>3
      <4> QED BY <1>0, <4>1, <4>2
    <3>2. CASE same # {} /\ fv.expiration <= f[last].expiration + ExpireSlop
      <4>1. last \in same /\ f[last].expiration \in Nat
        BY <1>1, <1>2, <1>3, <1>5, <3>2
      <4> HIDE DEF same
      <4> QED BY <1>0, <3>2, <4>1
    <3>3. ~(a = To(TRUE, [n EXCEPT !.future_values = later])) /\ ~(a = To(TRUE, [n EXCEPT !.future_values = more]))
      BY <1>6 DEF To
    <3> HIDE DEF same, later, more
    <3> QED BY <1>4, <3>1, <3>2, <3>3
  <2>3. \A i \in DOMAIN f : /\ f[i].value = f[i].value /\ f[i].tid = f[i].tid
                            /\ f[i].expiration >= f[i].expiration
                            /\ i - 1 <= n.future_index => f[i] = f[i]
    BY <1>2
  <2>4. SamePlace(n, n) /\ Len(f) <= Len(f)
    BY <1>1 DEF SamePlace
  <2> HIDE DEF later, more, same
  <2>5. Same
    BY <2>1, <2>4
  <2>6. g = f
    BY <2>1
  <2>7. Kept
    BY <2>3, <2>6
  <2>8. Size
    BY <2>4, <2>6
  <2>9. Held
    BY <2>1, <2>2, <2>6 DEF same
  <2> HIDE DEF Same, Kept, Size, Held
  <2> QED BY <2>5, <2>7, <2>8, <2>9
<1>7. CASE /\ a = To(TRUE, [n EXCEPT !.future_values = later]) /\ same # {} /\ last - 1 > n.future_index
           /\ \A i \in same : ~(fv.expiration <= f[i].expiration)
  <2>1. last \in DOMAIN f /\ last \in same /\ f[last].value = fv.value /\ f[last].tid = fv.tid
    BY <1>1, <1>3, <1>5, <1>7
  <2>2. f[last].expiration \in Nat /\ fv.expiration > f[last].expiration
    BY <1>0, <1>2, <1>7, <2>1
  <2>3. DOMAIN later = DOMAIN f /\ (\A i \in DOMAIN f : i # last => later[i] = f[i])
        /\ later[last] = [f[last] EXCEPT !.expiration = fv.expiration]
    BY <2>1
  <2>4. later[last].value = fv.value /\ later[last].tid = fv.tid /\ later[last].expiration = fv.expiration
    BY <1>2, <2>1, <2>3 DEF FutureValue
  <2>s. [f[last] EXCEPT !.expiration = fv.expiration] \in FutureValue
    BY <1>0, <1>2, <2>1 DEF FutureValue
  <2>5. later \in Seq(FutureValue) /\ Len(later) = Len(f)
    BY <1>1, <2>1, <2>s, ExceptSeq
  <2> HIDE DEF later
  <2> DEFINE m == [n EXCEPT !.future_values = later]
  <2>6. /\ SamePlace(m, n) /\ m.resolve = n.resolve /\ m.resolve_idx = n.resolve_idx
        /\ m.misc_index = n.misc_index /\ m.break_idx = n.break_idx /\ m.future_values = later
    BY DEF SamePlace, Sound, Ranges, Nodes
  <2>7. a.node = m /\ a.ok = TRUE
    BY <1>7 DEF To
  <2> HIDE DEF m
  <2>8. last \in SameValue(a.node, fv)
    BY <2>1, <2>3, <2>4, <2>6, <2>7 DEF SameValue
  <2>9. ASSUME NEW i \in DOMAIN f
        PROVE  /\ later[i].value = f[i].value /\ later[i].tid = f[i].tid
               /\ later[i].expiration >= f[i].expiration
               /\ i - 1 <= n.future_index => later[i] = f[i]
    <3>1. CASE i = last
      BY <1>0, <1>1, <1>7, <2>1, <2>2, <2>4, <3>1
    <3>2. CASE i # last
      BY <1>2, <2>3, <3>2
    <3> QED BY <3>1, <3>2
  <2>10. later[last].expiration + ExpireSlop >= fv.expiration
    BY <1>0, <2>4
  <2>11. \E i \in SameValue(a.node, fv) : later[i].expiration + ExpireSlop >= fv.expiration
    BY <2>8, <2>10
  <2>12. g = later /\ Len(f) <= Len(later)
    BY <1>1, <2>5, <2>6, <2>7 DEF f
  <2>13. Same
    BY <2>6, <2>7
  <2>14. Kept
    BY <2>9, <2>12
  <2>15. Size
    BY <1>1, <2>5, <2>12
  <2>16. Held
    BY <2>11, <2>12
  <2> HIDE DEF Same, Kept, Size, Held
  <2> QED BY <2>13, <2>14, <2>15, <2>16
<1>8. CASE /\ a = To(TRUE, [n EXCEPT !.future_values = more])
           /\ ~(MaxFutureValues > 0 /\ Len(f) >= MaxFutureValues)
  <2>1. more \in Seq(FutureValue) /\ Len(more) = Len(f) + 1 /\ DOMAIN more = 1..Len(f) + 1
        /\ (\A i \in 1..Len(f) : more[i] = f[i]) /\ more[Len(f) + 1] = fv
    BY <1>0, <1>1
  <2> HIDE DEF more
  <2> DEFINE m == [n EXCEPT !.future_values = more]
  <2>2. /\ SamePlace(m, n) /\ m.resolve = n.resolve /\ m.resolve_idx = n.resolve_idx
        /\ m.misc_index = n.misc_index /\ m.break_idx = n.break_idx /\ m.future_values = more
    BY DEF SamePlace, Sound, Ranges, Nodes
  <2>3. a.node = m /\ a.ok = TRUE
    BY <1>8 DEF To
  <2> HIDE DEF m
  <2>4. Len(f) + 1 \in SameValue(a.node, fv)
    BY <1>1, <2>1, <2>2, <2>3 DEF SameValue
  <2>5. ASSUME NEW i \in DOMAIN f
        PROVE  /\ more[i].value = f[i].value /\ more[i].tid = f[i].tid
               /\ more[i].expiration >= f[i].expiration
               /\ i - 1 <= n.future_index => more[i] = f[i]
    BY <1>1, <1>2, <2>1
  <2>6. more[Len(f) + 1].expiration + ExpireSlop >= fv.expiration
    BY <1>0, <2>1
  <2>7. \E i \in SameValue(a.node, fv) : more[i].expiration + ExpireSlop >= fv.expiration
    BY <2>4, <2>6
  <2>8. Len(f) <= Len(more) /\ (MaxFutureValues > 0 => Len(more) <= MaxFutureValues)
    BY <1>0, <1>1, <1>8, <2>1
  <2>9. g = more
    BY <2>2, <2>3
  <2>10. Same
    BY <2>2, <2>3
  <2>11. Kept
    BY <2>5, <2>9
  <2>12. Size
    BY <2>8, <2>9
  <2>13. Held
    BY <2>7, <2>9
  <2> HIDE DEF Same, Kept, Size, Held
  <2> QED BY <2>10, <2>11, <2>12, <2>13
<1> HIDE DEF same, later, more, f, Same, Kept, Size, Held
<1> QED BY <1>4, <1>6, <1>7, <1>8

\* More values make the menu longer, behind what is on it.
LEMMA MenuGrows ==
    ASSUME act \in Actions, NEW f \in Seq(FutureValue), NEW g \in Seq(FutureValue), Len(f) <= Len(g),
           \A i \in DOMAIN f : g[i].value = f[i].value
    PROVE  /\ \A rf \in Readable(f) : Allowed(rf, g) = Allowed(rf, f)
           /\ Menu(f) \subseteq Menu(g)
           /\ \A c \in Menu(g) : c \in Menu(f) \/ (act.kind \in ReadKinds
                                                  /\ \E i \in Nat : i >= Len(f) /\ c.rf = Future(i))
<1>0. DOMAIN f = 1..Len(f) /\ DOMAIN g = 1..Len(g) /\ Len(f) \in Nat /\ Len(g) \in Nat
  OBVIOUS
<1>1. ASSUME NEW rf \in Readable(f) PROVE Allowed(rf, g) = Allowed(rf, f)
  <2>1. CASE rf[1] # "future"
    BY <2>1 DEF Allowed, Resolvable
  <2>2. CASE rf[1] = "future"
    <3>1. PICK i \in DOMAIN f : rf = Future(i - 1)
      BY <2>2 DEF Readable, Past, Promised, NoRead
    <3>2. rf[2] + 1 = i
      BY <1>0, <3>1 DEF Future
    <3>3. g[rf[2] + 1].value = f[rf[2] + 1].value
      BY <3>2
    <3> QED BY <3>3 DEF Allowed, Resolvable
  <2> QED BY <2>1, <2>2
<1>2. Readable(f) \subseteq Readable(g)
  BY <1>0 DEF Readable
<1>3. Menu(f) \subseteq Menu(g)
  BY <1>1, <1>2 DEF Menu
<1>4. ASSUME NEW c \in Menu(g), c \notin Menu(f)
      PROVE  act.kind \in ReadKinds /\ \E i \in Nat : i >= Len(f) /\ c.rf = Future(i)
  <2>1. c.rf \in Readable(g) /\ c.rf \notin Readable(f)
    BY <1>1, <1>4 DEF Menu
  <2>2. act.kind \in ReadKinds /\ \E i \in DOMAIN g : c.rf = Future(i - 1)
    BY <2>1 DEF Readable
  <2>3. PICK i \in DOMAIN g : c.rf = Future(i - 1)
    BY <2>2
  <2>4. i \notin DOMAIN f
    BY <2>1, <2>2, <2>3 DEF Readable
  <2>5. i - 1 \in Nat /\ i - 1 >= Len(f)
    BY <1>0, <2>4
  <2> QED BY <2>2, <2>3, <2>5
<1> QED BY <1>1, <1>3, <1>4
-----------------------------------------------------------------------------
(* The steps.                                                              *)

LEMMA LegalAlways == act \in Actions => Legal = Menu(node.future_values)
BY LegalIs

\* What is said of the node after a step is said of what it was set to.
LEMMA Primed ==
    ASSUME act \in Actions, act' = act, NEW m, node' = m
    PROVE  /\ Legal' = Menu(m.future_values)
           /\ Ordered(node)' <=> Ordered(m)
           /\ Settled(node)' <=> Settled(m)
           /\ Ready(node)' <=> Ready(m)
           /\ ChoiceLeft(node)' <=> ChoiceLeft(m)
           /\ {c \in Legal : Before(c, node)}' = {c \in Menu(m.future_values) : Before(c, m)}
           /\ Choice(node)' = Choice(m)
<1>1. (act \in Actions => Legal = Menu(node.future_values))'
  BY LegalAlways, PTL
<1>2. Menu(node.future_values)' = Menu(m.future_values)
  BY DEF Menu, Readable, Allowed, Resolvable
<1>3. Legal' = Menu(m.future_values)
  BY <1>1, <1>2
<1>4. Current(node)' = Current(m) /\ Choice(node)' = Choice(m)
  BY DEF Current, Choice, ReadFrom
<1>5. Ordered(node)' <=> Ordered(m)
  BY DEF Ordered
<1>6. Allowed(Current(node), node.future_values)' = Allowed(Current(m), m.future_values)
  BY <1>4 DEF Allowed, Resolvable
<1>7. Settled(node)' <=> Settled(m)
  BY <1>6 DEF Settled, Counted
<1>8. Ready(node)' <=> Ready(m)
  BY <1>7 DEF Ready, Counted
<1>9. ChoiceLeft(node)' <=> ChoiceLeft(m)
  BY DEF ChoiceLeft, misc_empty, read_from_empty, read_from_past_empty,
         read_from_promise_empty, future_value_empty, promise_empty, relseq_break_empty
<1>10. ASSUME NEW c PROVE Before(c, node)' <=> Before(c, m)
  BY <1>4 DEF Before, ReadBefore
<1>11. {c \in Legal : Before(c, node)}' = {c \in Menu(m.future_values) : Before(c, m)}
  BY <1>3, <1>10
<1> QED BY <1>3, <1>4, <1>5, <1>7, <1>8, <1>9, <1>11

\* There is nothing to read, or no more.
LEMMA NothingToRead ==
    ASSUME act \in Actions, act.kind \in ReadKinds, NEW n, Sound(n), Ordered(n), n.resolve = {},
           n.status = "NONE" \/ (act.past + act.inherited = 0 /\ n.future_values = <<>>)
    PROVE  ~ChoiceLeft(n) /\ \A c \in Menu(n.future_values) : Before(c, n)
<1>0. /\ act.past \in Nat /\ act.inherited \in Nat /\ act.misc = 0 /\ act.breaks = 0
      /\ n.past_idx \in Nat /\ n.promise_idx \in Int /\ n.promise_idx >= -1 /\ n.future_index \in Int
      /\ n.future_index >= -1 /\ n.misc_index = 0 /\ n.break_idx = 0 /\ Ranges(n)
      /\ Len(n.future_values) \in Nat /\ DOMAIN n.future_values = 1..Len(n.future_values)
  BY Counts, KindIs DEF Sound, Ranges, Nodes
<1>1. read_from_empty(n)
  <2>1. CASE n.status = "NONE"
    BY <1>0, <2>1 DEF Sound, Ranges, read_from_empty, read_from_past_empty, read_from_promise_empty,
                      future_value_empty
  <2>2. CASE act.past + act.inherited = 0 /\ n.future_values = <<>>
    <3>1. act.past = 0 /\ act.inherited = 0 /\ Len(n.future_values) = 0
      BY <1>0, <2>2
    <3> QED BY <1>0, <3>1 DEF read_from_empty, read_from_past_empty, read_from_promise_empty, future_value_empty
  <2> QED BY <2>1, <2>2
<1>2. misc_empty(n) /\ promise_empty(n) /\ relseq_break_empty(n)
  BY <1>0 DEF misc_empty, promise_empty, relseq_break_empty
<1>3. ASSUME NEW rf \in Readable(n.future_values) PROVE ReadBefore(rf, n)
  <2>1. ReadBefore(rf, n) \/ rf = ReadFrom(n)
    BY <1>0, <1>1, LastRead
  <2>2. rf \in Listed(n)
    BY ReadableListed
  <2>3. CASE n.status = "NONE"
    <3>1. rf # ReadFrom(n)
      BY <2>2, <2>3, PastAt, PromisedAt, FutureAt DEF Listed
    <3> QED BY <2>1, <3>1
  <2>4. CASE act.past + act.inherited = 0 /\ n.future_values = <<>>
    <3>1. act.past = 0 /\ act.inherited = 0 /\ Len(n.future_values) = 0
      BY <1>0, <2>4
    <3>2. Listed(n) = {}
      BY <1>0, <3>1 DEF Listed
    <3> QED BY <2>2, <3>2
  <2> QED BY <2>3, <2>4
<1>4. \A c \in Menu(n.future_values) : Before(c, n)
  BY <1>3 DEF Menu, Before
<1> QED BY <1>1, <1>2, <1>4 DEF ChoiceLeft

\* An execution reaches the node: a choice that was not made yet is made, or
\* the last one again, or there is nothing to read.
LEMMA ReachPlace ==
    ASSUME IInv, PlaceInv, Reach
    PROVE  PlaceInv' /\ Legal' = Legal /\ (ran' = ran \/ \E c \in Legal \ ran : ran' = ran \cup {c})
<1> DEFINE n == IF NoValidReads THEN node ELSE Processed(node)
           ok == ~NoValidReads /\ (act.kind \in ReadKinds => n.status # "NONE")
           f == node.future_values
<1>1. act \in Actions /\ Sound(node) /\ Ordered(node) /\ Legal = Menu(f)
      /\ fresh \in BOOLEAN /\ phase = "reach"
  BY LegalIs DEF IInv, PlaceInv, Reach
<1>2. /\ act' = act /\ node' = n /\ phase' = "run" /\ backtrack' = backtrack /\ fresh' = FALSE
      /\ alive' = (ok /\ ReadFrom(n) \notin act.old) /\ flagged' = Nonempty(n)
      /\ ran' = IF ok /\ fresh THEN ran \cup {Choice(n)} ELSE ran
  BY DEF Reach
<1>3. Ready(node)
  BY <1>1 DEF PlaceInv, Ready
<1>4. Sound(n) /\ Ordered(n) /\ n.future_values = f
      /\ \A c \in Menu(f) : Before(c, n) <=> Before(c, node)
  BY <1>1, <1>3, ProcessedPlace, ProcessedStep
<1>5. ok => Settled(n)
  BY <1>1, <1>3, ProcessedPlace
<1>6. ~ok => act.kind \in ReadKinds /\ n.resolve = {}
             /\ (n.status = "NONE" \/ (act.past + act.inherited = 0 /\ n.future_values = <<>>))
  <2>1. CASE NoValidReads
    <3>1. act.kind \in ReadKinds /\ act.past + act.inherited = 0 /\ node.future_values = <<>> /\ n = node
      BY <2>1 DEF NoValidReads
    <3>2. node.resolve = {}
      <4> SUFFICES ASSUME Settled(node) PROVE FALSE
        BY <1>3 DEF Ready
      <4>1. Choice(node) \in Menu(node.future_values)
        BY <1>1, CurrentIsNew
      <4>2. act.past = 0 /\ act.inherited = 0
        BY <1>1, <3>1, Counts
      <4>3. Readable(node.future_values) = {}
        BY <3>1, <4>2 DEF Readable
      <4> QED BY <4>1, <4>3 DEF Menu
    <3> QED BY <3>1, <3>2
  <2>2. CASE ~NoValidReads
    <3>1. ~ok => act.kind \in ReadKinds /\ n.status = "NONE" /\ n = Processed(node)
      BY <2>2
    <3>2. n.status = "NONE" /\ act.kind \in ReadKinds => ~Settled(n)
      BY DEF Settled
    <3>3. Settled(Processed(node)) \/ (act.kind \in ReadKinds /\ Processed(node).status = "NONE"
                                       /\ Processed(node).resolve = {})
      BY <1>1, <1>3, ProcessedPlace
    <3> HIDE DEF n, ok
    <3> QED BY <3>1, <3>2, <3>3
  <2> QED BY <2>1, <2>2
<1>7. ~fresh => n = node
  <2>1. ~fresh => Settled(node)
    BY <1>1 DEF PlaceInv
  <2>2. Settled(node) => Processed(node) = node
    BY <1>1, <1>3, ProcessedPlace
  <2> QED BY <2>1, <2>2
<1>8. ~fresh => ok
  <2> SUFFICES ASSUME ~fresh, ~ok PROVE FALSE
    OBVIOUS
  <2>1. Choice(node) \in Menu(f)
    BY <1>1 DEF PlaceInv, MadeHere
  <2>2. ~Before(Choice(node), node)
    BY <1>1, CurrentIsNew DEF PlaceInv
  <2>3. \A c \in Menu(f) : Before(c, n)
    <3> HIDE DEF n, ok
    <3> QED BY <1>1, <1>4, <1>6, NothingToRead
  <2> HIDE DEF n, ok
  <2> QED BY <1>7, <2>1, <2>2, <2>3
<1>9. flagged' <=> backtrack \/ ChoiceLeft(n)
  BY <1>2, NonemptyIs
<1> HIDE DEF n, ok
<1>10. /\ Legal' = Menu(f) /\ (Ordered(node)' <=> Ordered(n)) /\ (Settled(node)' <=> Settled(n))
       /\ (ChoiceLeft(node)' <=> ChoiceLeft(n))
       /\ {c \in Legal : Before(c, node)}' = {c \in Menu(f) : Before(c, n)}
       /\ Choice(node)' = Choice(n)
  BY <1>1, <1>2, <1>4, Primed
<1>11. {c \in Menu(f) : Before(c, n)} = {c \in Menu(f) : Before(c, node)}
  BY <1>4
<1>12. ok => Choice(n) \in Menu(f) /\ ~Before(Choice(n), node)
  BY <1>1, <1>4, <1>5, CurrentIsNew
<1>13. fresh => ran = {c \in Menu(f) : Before(c, node)}
  BY <1>1 DEF PlaceInv, MadeBefore
<1>14. ~fresh => ran = {c \in Menu(f) : Before(c, node)} \cup {Choice(node)}
  BY <1>1 DEF PlaceInv, MadeHere
<1>15. CASE ok
  <2>1. ran' = {c \in Menu(f) : Before(c, n)} \cup {Choice(n)}
    BY <1>2, <1>7, <1>11, <1>13, <1>14, <1>15, <1>1
  <2>2. MadeHere' /\ Settled(node)'
    BY <1>5, <1>10, <1>12, <1>15, <2>1 DEF MadeHere
  <2>3. fresh => Choice(n) \in Legal \ ran
    BY <1>1, <1>12, <1>13, <1>15
  <2>4. PlaceInv'
    BY <1>2, <1>4, <1>9, <1>10, <2>2 DEF PlaceInv
  <2> QED BY <1>1, <1>2, <1>10, <2>3, <2>4
<1>16. CASE ~ok
  <2>1. fresh
    BY <1>8, <1>16
  <2>2. ~ChoiceLeft(n) /\ \A c \in Menu(f) : Before(c, n)
    BY <1>1, <1>4, <1>6, <1>16, NothingToRead
  <2>3. ran' = Legal'
    BY <1>2, <1>10, <1>11, <1>13, <1>16, <2>1, <2>2
  <2>4. ~alive'
    BY <1>2, <1>16
  <2>5. PlaceInv'
    BY <1>2, <1>4, <1>9, <1>10, <2>2, <2>3, <2>4 DEF PlaceInv
  <2> QED BY <1>1, <1>2, <1>10, <1>16, <2>5
<1> QED BY <1>15, <1>16

\* What is read is noted.
LEMMA ReachValues ==
    ASSUME IInv, PlaceInv, ValueInv, Reach
    PROVE  ValueInv'
<1> DEFINE n == IF NoValidReads THEN node ELSE Processed(node)
           ok == ~NoValidReads /\ (act.kind \in ReadKinds => n.status # "NONE")
           f == node.future_values
<1>1. act \in Actions /\ Sound(node) /\ Ordered(node) /\ Ready(node) /\ phase = "reach" /\ Ranges(node)
      /\ fresh \in BOOLEAN
  BY DEF IInv, PlaceInv, Reach, Ready, Sound
<1>2. /\ node' = n /\ phase' = "run" /\ sent' = sent /\ act' = act
      /\ received' = IF ok /\ n.status = "FUTURE" THEN received \cup {n.future_values[n.future_index + 1]}
                     ELSE received
  BY DEF Reach
<1>3. Sound(n) /\ Ordered(n) /\ n.future_values = f
  BY <1>1, ProcessedPlace, ProcessedStep
<1>4. ok => Settled(n)
  BY <1>1, ProcessedPlace
<1>r. ~fresh => n = node
  <2>1. ~fresh => Settled(node)
    BY <1>1 DEF PlaceInv
  <2>2. Settled(node) => Processed(node) = node
    BY <1>1, ProcessedPlace
  <2> QED BY <2>1, <2>2
<1>5. /\ n.future_index \in Int /\ node.future_index \in Int /\ DOMAIN f = 1..Len(f) /\ Len(f) \in Nat
      /\ n.status \in {"PAST", "PROMISE", "FUTURE", "NONE"} /\ n.future_index >= -1
      /\ n.future_index <= Len(f)
  BY <1>1, <1>3 DEF Sound, Ranges, Nodes
<1>6. \A j \in DOMAIN f : j <= node.future_index + ReadsBehind => f[j] \in received
  BY <1>1 DEF ValueInv
\* Everything up to the place before the one reached was read already.
<1>7. \A j \in DOMAIN f : j <= n.future_index => f[j] \in received
  <2>1. CASE ~fresh
    <3>1. n.future_index = node.future_index /\ ReadsBehind = 1
      BY <1>r, <2>1 DEF ReadsBehind
    <3> HIDE DEF n, f
    <3> QED BY <1>5, <1>6, <3>1
  <2>2. CASE fresh /\ act.kind \notin ReadKinds
    <3>1. n = node /\ ReadsBehind = 0
      BY <1>1, <2>2 DEF Processed, ReadKinds, ReadsBehind
    <3> HIDE DEF n, f
    <3> QED BY <1>5, <1>6, <3>1
  <2>3. CASE fresh /\ act.kind \in ReadKinds
    <3>1. ReadsBehind = 0
      BY <1>1, <2>3 DEF ReadsBehind
    <3> SUFFICES ASSUME NEW j \in DOMAIN f, j <= n.future_index PROVE f[j] \in received
      OBVIOUS
    <3>2. act.kind \in ReadKinds /\ j - 1 \in Int /\ j - 1 < n.future_index /\ (j - 1) + 1 = j
      BY <1>5, <2>3
    <3>3. Future(j - 1) \in Readable(f)
      BY <3>2 DEF Readable
    <3>4. ReadBefore(Future(j - 1), n) <=> ReadBefore(Future(j - 1), node)
      <4> DEFINE c == [rf |-> Future(j - 1), resolve |-> -1, misc |-> 0, break |-> 0]
      <4>1. c \in Menu(f)
        BY <3>3 DEF Menu, UpTo
      <4>2. Before(c, n) <=> Before(c, node)
        BY <1>1, <4>1, ProcessedPlace
      <4>3. n.misc_index = 0 /\ n.break_idx = 0 /\ node.misc_index = 0 /\ node.break_idx = 0
            /\ n.resolve_idx \in Int /\ node.resolve_idx \in Int
        BY <1>1, <1>3, <2>3, KindIs DEF Sound, Ranges, Nodes
      <4>6. ReadBefore(Future(j - 1), n)
        BY <3>2, FutureAt
      <4>7. Before(c, node)
        BY <4>2, <4>6 DEF Before
      <4>8. ReadBefore(Future(j - 1), node) \/ Future(j - 1) = Current(node)
        BY <4>3, <4>7 DEF Before
      <4> HIDE DEF c, n
      <4>9. CASE Future(j - 1) = Current(node)
        <5>1. node.status = "FUTURE" /\ node.future_index = j - 1
          BY <3>2, <4>9, FutureAt DEF Current
        <5>2. Recent(Fetched(node)) = node
          BY <5>1 DEF Recent, Fetched
        <5>3. n.future_index = node.future_index
          <6>1. NoValidReads => n = node
            BY DEF n
          <6>2. ~NoValidReads => SamePlace(n, node)
            BY <1>1, <3>2, <5>2 DEF n, Processed, SamePlace, Sound, Ranges, Nodes
          <6> QED BY <6>1, <6>2 DEF SamePlace
        <5> QED BY <3>2, <5>1, <5>3, <1>5
      <4> QED BY <4>6, <4>8, <4>9
    <3>5. j - 1 < node.future_index
      BY <3>2, <3>4, FutureAt
    <3> HIDE DEF n, f
    <3> QED BY <1>5, <1>6, <3>1, <3>2, <3>5
  <2> QED BY <1>1, <2>1, <2>2, <2>3
<1>8. n.status # "FUTURE" => \A j \in DOMAIN f : ~(j = n.future_index + 1)
  <2>1. CASE n.status \in {"PAST", "PROMISE"}
    <3>1. n.future_index = -1
      BY <1>3, <2>1 DEF Ordered
    <3> QED BY <1>5, <3>1
  <2>2. CASE n.status = "NONE"
    <3>1. n.future_index = Len(f)
      BY <1>3, <2>2 DEF Sound, Ranges
    <3> QED BY <1>5, <3>1
  <2> HIDE DEF n
  <2> QED BY <1>5, <2>1, <2>2
<1>9. n.status = "FUTURE" => ok
  <2>1. n.status = "FUTURE" => n.future_index < Len(f) /\ n.future_index >= 0
    BY <1>3, <1>5 DEF Sound, Ranges
  <2>2. NoValidReads => Len(f) = 0
    BY DEF NoValidReads
  <2> QED BY <1>5, <2>1, <2>2
<1> HIDE DEF n, ok
<1>10. \A j \in DOMAIN f : j <= n.future_index + 1 => f[j] \in received'
  <2> SUFFICES ASSUME NEW j \in DOMAIN f, j <= n.future_index + 1 PROVE f[j] \in received'
    OBVIOUS
  <2>1. j <= n.future_index \/ j = n.future_index + 1
    BY <1>5
  <2>2. CASE j <= n.future_index
    BY <1>2, <1>7, <2>2
  <2>3. CASE j = n.future_index + 1
    <3>1. n.status = "FUTURE"
      BY <1>8, <2>3
    <3>2. received' = received \cup {n.future_values[n.future_index + 1]}
      BY <1>2, <1>9, <3>1
    <3> QED BY <1>3, <2>3, <3>2
  <2> QED BY <2>1, <2>2, <2>3
<1>11. ReadsBehind' = 1 /\ phase' # "left"
  BY <1>2 DEF ReadsBehind
<1>12. \A fv : SameValue(node, fv)' = SameValue(node, fv)
  BY <1>2, <1>3 DEF SameValue
<1> QED BY <1>2, <1>3, <1>10, <1>11, <1>12 DEF ValueInv

\* A value is sent while an execution goes on: the menu grows behind the place.
LEMMA SendPlace ==
    ASSUME IInv, PlaceInv, NEW fv \in FutureValues, SendFutureValue(fv)
    PROVE  PlaceInv' /\ Legal \subseteq Legal'
<1> DEFINE n == node
           a == add_future_value(node, fv)
           f == node.future_values
           m == a.node
           g == m.future_values
<1>1. /\ act \in Actions /\ Sound(node) /\ Ordered(node) /\ node.status # "NONE" /\ act.kind \in ReadKinds
      /\ phase = "run" /\ Settled(node) /\ MadeHere /\ (flagged <=> backtrack \/ ChoiceLeft(node))
      /\ Legal = Menu(f) /\ ~fresh
  BY LegalIs DEF IInv, PlaceInv, SendFutureValue
<1>2. /\ act' = act /\ node' = m /\ ran' = ran /\ phase' = phase /\ fresh' = fresh /\ backtrack' = backtrack
      /\ flagged' = (flagged \/ a.ok)
  BY DEF SendFutureValue
<1>3. /\ SamePlace(m, n) /\ m.resolve = n.resolve /\ m.resolve_idx = n.resolve_idx
      /\ m.misc_index = n.misc_index /\ m.break_idx = n.break_idx
      /\ a.ok \in BOOLEAN /\ (~a.ok => m = n) /\ Len(f) <= Len(g)
      /\ \A i \in DOMAIN f : g[i].value = f[i].value
  BY <1>1, AddFields
<1>4. Sound(m) /\ (a.ok \/ ChoiceLeft(n) => ChoiceLeft(m))
  BY <1>1, AddStep
<1> HIDE DEF a
<1>5. f \in Seq(FutureValue) /\ g \in Seq(FutureValue) /\ Len(f) \in Nat /\ n.future_index \in Int
      /\ n.future_index < Len(f)
  BY <1>1, <1>4 DEF Sound, Ranges, Nodes
<1>6. /\ \A rf \in Readable(f) : Allowed(rf, g) = Allowed(rf, f)
      /\ Menu(f) \subseteq Menu(g)
      /\ \A c \in Menu(g) : c \in Menu(f) \/ \E i \in Nat : i >= Len(f) /\ c.rf = Future(i)
  <2> HIDE DEF f, g
  <2> QED BY <1>1, <1>3, <1>5, MenuGrows
<1>7. /\ Ordered(m) /\ Current(m) = Current(n) /\ Choice(m) = Choice(n)
      /\ \A c : Before(c, m) <=> Before(c, n)
  BY <1>1, <1>3, SamePlaceIs DEF Current, Choice, Before
<1>8. Choice(n) \in Menu(f) /\ Current(n) \in Readable(f)
  <2>1. Choice(n) \in Menu(f)
    BY <1>1, CurrentIsNew
  <2> QED BY <2>1 DEF Menu, Choice, Current
<1>9. Settled(m)
  BY <1>1, <1>3, <1>6, <1>7, <1>8 DEF Settled, Counted, SamePlace
<1>10. ASSUME NEW c \in Menu(g), c \notin Menu(f) PROVE ~Before(c, n)
  <2>1. PICK i \in Nat : i >= Len(f) /\ c.rf = Future(i)
    BY <1>6, <1>10
  <2>2. ~ReadBefore(c.rf, n)
    BY <1>5, <2>1, FutureAt
  <2>3. c.rf # Current(n)
    <3>1. Future(i) = ReadFrom(n) => i = n.future_index
      BY FutureAt
    <3>2. Current(n) = ReadFrom(n)
      BY <1>1 DEF Current
    <3> QED BY <1>5, <2>1, <3>1, <3>2
  <2>4. act.misc = 0 /\ act.breaks = 0 /\ n.misc_index = 0 /\ n.break_idx = 0
    BY <1>1, KindIs DEF Sound, Ranges
  <2>5. c.misc \in UpTo(0) /\ c.break \in UpTo(0)
    BY <2>4 DEF Menu
  <2> QED BY <2>2, <2>3, <2>4, <2>5 DEF Before, UpTo
<1>11. {c \in Menu(g) : Before(c, m)} = {c \in Menu(f) : Before(c, n)}
  BY <1>6, <1>7, <1>10
<1>12. /\ Legal' = Menu(g) /\ (Ordered(node)' <=> Ordered(m)) /\ (Settled(node)' <=> Settled(m))
       /\ (ChoiceLeft(node)' <=> ChoiceLeft(m))
       /\ {c \in Legal : Before(c, node)}' = {c \in Menu(g) : Before(c, m)}
       /\ Choice(node)' = Choice(m)
  BY <1>1, <1>2, Primed
<1>13. MadeHere'
  BY <1>1, <1>2, <1>6, <1>7, <1>8, <1>11, <1>12 DEF MadeHere
<1>14. flagged' <=> backtrack' \/ ChoiceLeft(node)'
  BY <1>1, <1>2, <1>3, <1>4, <1>12
<1>15. PlaceInv'
  BY <1>1, <1>2, <1>7, <1>9, <1>12, <1>13, <1>14 DEF PlaceInv
<1> QED BY <1>1, <1>6, <1>12, <1>15

LEMMA SendValues ==
    ASSUME IInv, PlaceInv, ValueInv, NEW fv \in FutureValues, SendFutureValue(fv)
    PROVE  ValueInv'
<1> DEFINE a == add_future_value(node, fv)
           f == node.future_values
           g == a.node.future_values
<1>1. /\ act \in Actions /\ Sound(node) /\ node.status # "NONE" /\ phase = "run"
  BY DEF IInv, SendFutureValue
<1>2. /\ node' = a.node /\ phase' = phase /\ fresh' = fresh /\ sent' = sent \cup {fv}
      /\ received' = received
  BY DEF SendFutureValue
<1>3. /\ SamePlace(a.node, node) /\ Len(f) <= Len(g)
      /\ \A i \in DOMAIN f : /\ g[i].value = f[i].value /\ g[i].tid = f[i].tid
                             /\ g[i].expiration >= f[i].expiration
                             /\ i - 1 <= node.future_index => g[i] = f[i]
      /\ MaxFutureValues > 0 /\ Len(f) <= MaxFutureValues => Len(g) <= MaxFutureValues
      /\ \/ \E i \in SameValue(a.node, fv) : g[i].expiration + ExpireSlop >= fv.expiration
         \/ MaxFutureValues > 0 /\ Len(g) >= MaxFutureValues
  BY <1>1, AddFields
<1>4. Sound(a.node)
  BY <1>1, AddStep
<1> HIDE DEF a
<1>5. /\ f \in Seq(FutureValue) /\ g \in Seq(FutureValue) /\ Len(f) \in Nat /\ Len(g) \in Nat
      /\ DOMAIN f = 1..Len(f) /\ DOMAIN g = 1..Len(g) /\ node.future_index \in Int
      /\ node.future_index < Len(f)
  <2>1. f \in Seq(FutureValue) /\ node.future_index \in Int /\ node.future_index < Len(f)
    BY <1>1 DEF Sound, Ranges, Nodes
  <2>2. g \in Seq(FutureValue)
    BY <1>4 DEF Sound, Ranges, Nodes
  <2> HIDE DEF f, g
  <2> QED BY <2>1, <2>2
<1>0. fv \in FutureValue /\ ExpireSlop \in Nat /\ MaxFutureValues \in Nat
  BY FutureValuesAssumption, OptionsAssumption
<1>6. ValueInv /\ ReadsBehind = 1 /\ ReadsBehind' = 1
  BY <1>1, <1>2 DEF ReadsBehind
<1>7. sent' \subseteq FutureValue
  BY <1>0, <1>2 DEF ValueInv
<1>8. \A v : SameValue(node, v)' = SameValue(a.node, v)
  BY <1>2 DEF SameValue
<1>9. MaxFutureValues > 0 => Len(g) <= MaxFutureValues
  BY <1>3 DEF ValueInv
<1>10. ASSUME NEW v \in sent'
       PROVE  \/ \E i \in SameValue(a.node, v) : g[i].expiration + ExpireSlop >= v.expiration
              \/ MaxFutureValues > 0 /\ Len(g) = MaxFutureValues
  <2>1. CASE v = fv
    BY <1>0, <1>3, <1>5, <1>9, <2>1
  <2>2. CASE v \in sent
    <3>1. CASE \E i \in SameValue(node, v) : f[i].expiration + ExpireSlop >= v.expiration
      <4>1. PICK i \in SameValue(node, v) : f[i].expiration + ExpireSlop >= v.expiration
        BY <3>1
      <4>2. i \in DOMAIN f /\ i \in DOMAIN g
        BY <1>3, <1>5 DEF SameValue
      <4>3. i \in SameValue(a.node, v)
        BY <1>3, <4>2 DEF SameValue
      <4>4. f[i] \in FutureValue /\ g[i] \in FutureValue /\ v \in FutureValue
        BY <1>5, <2>2, <4>2, ElementOfSeq DEF ValueInv
      <4>5. f[i].expiration \in Nat /\ g[i].expiration \in Nat /\ v.expiration \in Nat
        BY <4>4 DEF FutureValue
      <4>6. g[i].expiration >= f[i].expiration
        BY <1>3, <4>2
      <4>7. g[i].expiration + ExpireSlop >= v.expiration
        BY <1>0, <4>1, <4>5, <4>6
      <4> QED BY <4>3, <4>7
    <3>2. CASE MaxFutureValues > 0 /\ Len(f) = MaxFutureValues
      BY <1>0, <1>3, <1>5, <1>9, <3>2
    <3> QED BY <2>2, <3>1, <3>2 DEF ValueInv
  <2> QED BY <1>2, <2>1, <2>2
<1>11. ASSUME NEW j \in DOMAIN g, j <= a.node.future_index + 1 PROVE g[j] \in received
  <2>1. j <= node.future_index + 1
    BY <1>3, <1>11 DEF SamePlace
  <2>2. j \in DOMAIN f /\ j - 1 <= node.future_index
    BY <1>5, <2>1
  <2>3. f[j] \in received
    BY <1>1, <1>6, <2>1, <2>2 DEF ValueInv
  <2> QED BY <1>3, <2>2, <2>3
<1> HIDE DEF f, g
<1>12. node.future_values' = g /\ node.future_index' = a.node.future_index
  BY <1>2 DEF g
<1> QED BY <1>1, <1>2, <1>6, <1>7, <1>8, <1>9, <1>10, <1>11, <1>12 DEF ValueInv

\* Where increment_behaviors leaves the future values.
LEMMA NextFuture ==
    ASSUME act \in Actions, NEW n, Sound(n), Ordered(n), NEW j \in DOMAIN n.future_values,
           j <= increment_behaviors(n).node.future_index
    PROVE  j <= n.future_index + 1
<1> DEFINE misc == increment_misc(n)
           promise == increment_promise(misc.node)
           read_from == increment_read_from(promise.node)
           break == increment_relseq_break(read_from.node)
<1>0. j \in Nat /\ n.future_index \in Int /\ j <= Len(n.future_values) /\ Len(n.future_values) \in Nat
  BY DEF Sound, Ranges, Nodes
<1>1. increment_behaviors(n) = IF misc.ok THEN misc ELSE IF promise.ok THEN promise
                               ELSE IF read_from.ok THEN read_from ELSE break
  BY DEF increment_behaviors
<1>2. Sound(misc.node) /\ misc.node.future_index = n.future_index /\ misc.node.future_values = n.future_values
  BY MiscStep, MiscFields DEF SamePlace
<1> HIDE DEF misc
<1>3. /\ Sound(promise.node) /\ promise.node.future_index = n.future_index
      /\ promise.node.future_values = n.future_values
  <2>1. Sound(promise.node) /\ (~promise.ok => promise.node = misc.node)
    BY <1>2, PromiseStep
  <2>2. promise.ok => promise.node.future_index = n.future_index
                      /\ promise.node.future_values = n.future_values
    BY <1>2, PromiseFields DEF SamePlace
  <2> QED BY <1>2, <2>1, <2>2
<1> HIDE DEF promise
<1>4. j <= read_from.node.future_index => j <= n.future_index + 1
  <2> DEFINE c == clear_promise_resolutions(promise.node)
  <2>1. Ranges(c) /\ c.future_index = n.future_index /\ c.future_values = n.future_values
    BY <1>3, ClearStep, ClearFields DEF Sound, SamePlace
  <2>2. read_from.node = NextRead(c).node
    BY DEF increment_read_from
  <2> HIDE DEF c
  <2>3. \/ NextRead(c).node.future_index \in {n.future_index, n.future_index + 1}
        \/ n.future_index + 1 >= Len(n.future_values)
    BY <2>1, NextReadFields
  <2> QED BY <1>0, <2>2, <2>3
<1>5. break.node.future_index = read_from.node.future_index
  <2>1. Sound(read_from.node)
    BY <1>3, ReadStep DEF Sound
  <2> HIDE DEF read_from
  <2> QED BY <2>1, BreakFields DEF SamePlace
<1> HIDE DEF read_from, break
<1>6. increment_behaviors(n).node.future_index \in
        {misc.node.future_index, promise.node.future_index, read_from.node.future_index}
  BY <1>1, <1>5
<1> QED BY <1>0, <1>2, <1>3, <1>4, <1>6

\* The search diverges: it comes back for the next choice, or there is none.
LEMMA DivergePlace ==
    ASSUME IInv, PlaceInv, ValueInv, Diverge
    PROVE  PlaceInv' /\ ValueInv' /\ Legal' = Legal /\ (phase' = "left" => Legal \subseteq ran)
<1> DEFINE b == increment_behaviors(node)
           f == node.future_values
           m == b.node
<1>1. /\ act \in Actions /\ Sound(node) /\ Ordered(node) /\ phase = "end" /\ flagged
      /\ (flagged <=> backtrack \/ ChoiceLeft(node)) /\ Legal = Menu(f)
      /\ ((Settled(node) /\ MadeHere) \/ (~alive /\ ~ChoiceLeft(node) /\ ran = Legal))
  BY LegalIs DEF IInv, PlaceInv, Diverge
<1>2. /\ phase' = IF b.ok THEN "reach" ELSE IF backtrack THEN "left" ELSE "crash"
      /\ node' = m /\ fresh' = b.ok
      /\ act' = act /\ ran' = ran /\ sent' = sent /\ received' = received
  BY DEF Diverge
<1>3. /\ m.future_values = f /\ (b.ok <=> ChoiceLeft(node))
      /\ Settled(node) /\ b.ok => Advanced(m, node)
  BY <1>1, NextChoice
<1>4. Sound(m) /\ b.ok \in BOOLEAN
  BY <1>1, BehaviorStep
<1>5. \A j \in DOMAIN f : j <= m.future_index => j <= node.future_index + 1
  BY <1>1, NextFuture
<1> HIDE DEF b
<1>6. /\ Legal' = Menu(f) /\ (Ordered(node)' <=> Ordered(m)) /\ (Ready(node)' <=> Ready(m))
      /\ {c \in Legal : Before(c, node)}' = {c \in Menu(f) : Before(c, m)}
  BY <1>1, <1>2, <1>3, Primed
<1>7. \A v : SameValue(node, v)' = SameValue(node, v)
  BY <1>2, <1>3 DEF SameValue
<1>8. DOMAIN f = 1..Len(f) /\ Len(f) \in Nat /\ node.future_index \in Int /\ m.future_index \in Int
  BY <1>1, <1>3, <1>4 DEF Sound, Ranges, Nodes
<1>9. \A j \in DOMAIN f : j <= node.future_index + 1 => f[j] \in received
  <2>1. ReadsBehind = 1
    BY <1>1 DEF ReadsBehind
  <2> QED BY <1>1, <2>1 DEF ValueInv
<1>10. CASE b.ok
  <2>1. Settled(node) /\ MadeHere /\ Advanced(m, node)
    BY <1>1, <1>3, <1>10
  <2>2. MadeBefore'
    <3>1. ran = {c \in Menu(f) : Before(c, node)} \cup {Choice(node)} /\ Choice(node) \in Menu(f)
      BY <1>1, <2>1 DEF MadeHere
    <3>2. \A c \in Menu(f) : Before(c, m) <=> Before(c, node) \/ c = Choice(node)
      BY <2>1 DEF Advanced
    <3>3. ran = {c \in Menu(f) : Before(c, m)}
      BY <3>1, <3>2
    <3> QED BY <1>2, <1>6, <3>3 DEF MadeBefore
  <2>3. PlaceInv'
    BY <1>2, <1>4, <1>6, <1>10, <2>1, <2>2 DEF PlaceInv, Advanced
  <2>4. ReadsBehind' = 0 /\ phase' = "reach"
    BY <1>2, <1>4, <1>10 DEF ReadsBehind
  <2>5. \A j \in DOMAIN f : j <= m.future_index + 0 => f[j] \in received
    BY <1>5, <1>8, <1>9
  <2>6. ValueInv'
    <3> HIDE DEF f, m
    <3>1. node.future_values' = f /\ node.future_index' = m.future_index
      BY <1>2, <1>3
    <3> QED BY <1>2, <1>7, <2>4, <2>5, <3>1 DEF ValueInv, f
  <2> QED BY <1>1, <1>6, <2>3, <2>4, <2>6
<1>11. CASE ~b.ok
  <2>1. phase' = "left" /\ ~ChoiceLeft(node)
    BY <1>1, <1>2, <1>3, <1>11
  <2>2. Legal \subseteq ran
    BY <1>1, <2>1, LastChoice DEF MadeHere
  <2>3. PlaceInv'
    BY <2>1 DEF PlaceInv
  <2>4. \A j \in DOMAIN f : f[j] \in received
    <3>1. node.future_index + 1 >= Len(f)
      BY <2>1 DEF ChoiceLeft, read_from_empty, future_value_empty
    <3> QED BY <1>8, <1>9, <3>1
  <2>5. ValueInv'
    <3> HIDE DEF f, m
    <3>1. node.future_values' = f
      BY <1>2, <1>3
    <3> QED BY <1>2, <1>7, <2>1, <2>4, <3>1 DEF ValueInv, f
  <2> QED BY <1>1, <1>6, <2>2, <2>3, <2>5
<1> QED BY <1>10, <1>11, <1>4

\* The search leaves the node when nothing is left.
LEMMA LeavePlace ==
    ASSUME IInv, PlaceInv, ValueInv, Leave
    PROVE  PlaceInv' /\ ValueInv' /\ Legal \subseteq ran
<1>1. /\ act \in Actions /\ Sound(node) /\ Ordered(node) /\ phase = "end" /\ ~ChoiceLeft(node)
      /\ Legal = Menu(node.future_values)
      /\ ((Settled(node) /\ MadeHere) \/ (~alive /\ ~ChoiceLeft(node) /\ ran = Legal))
  BY LegalIs DEF IInv, PlaceInv, Leave
<1>2. phase' = "left" /\ UNCHANGED <<act, node, ran, sent, received>>
  BY DEF Leave
<1>3. Legal \subseteq ran
  BY <1>1, LastChoice DEF MadeHere
<1>4. PlaceInv'
  BY <1>2 DEF PlaceInv
<1>5. \A j \in DOMAIN node.future_values : node.future_values[j] \in received
  <2>1. node.future_index + 1 >= Len(node.future_values)
    BY <1>1 DEF ChoiceLeft, read_from_empty, future_value_empty
  <2>2. node.future_index \in Int /\ DOMAIN node.future_values = 1..Len(node.future_values)
        /\ Len(node.future_values) \in Nat
    BY <1>1 DEF Sound, Ranges, Nodes
  <2>3. ReadsBehind = 1
    BY <1>1 DEF ReadsBehind
  <2> QED BY <1>1, <2>1, <2>2, <2>3 DEF ValueInv
<1>6. ValueInv'
  BY <1>2, <1>5 DEF ValueInv, SameValue
<1> QED BY <1>3, <1>4, <1>6

\* The steps that leave the node as it is.
LEMMA QuietPlace ==
    ASSUME IInv, PlaceInv, ValueInv, UNCHANGED <<act, node, fresh, alive, ran, sent, received>>,
           UNCHANGED <<phase, flagged, backtrack>> \/ SetBacktrack \/ EndExecution \/ Replay
    PROVE  PlaceInv' /\ ValueInv' /\ Legal' = Legal /\ (phase' = "left" <=> phase = "left")
<1>1. act \in Actions /\ act' = act /\ node' = node
  BY DEF IInv
<1>2. /\ Legal' = Legal /\ (Ordered(node)' <=> Ordered(node)) /\ (Settled(node)' <=> Settled(node))
      /\ (Ready(node)' <=> Ready(node)) /\ (ChoiceLeft(node)' <=> ChoiceLeft(node))
      /\ {c \in Legal : Before(c, node)}' = {c \in Legal : Before(c, node)}
      /\ Choice(node)' = Choice(node)
  <2>1. Legal = Menu(node.future_values)
    BY <1>1, LegalIs
  <2> QED BY <1>1, <2>1, Primed
<1>3. (MadeHere' <=> MadeHere) /\ (MadeBefore' <=> MadeBefore) /\ ran' = ran /\ fresh' = fresh /\ alive' = alive
  BY <1>2 DEF MadeHere, MadeBefore
<1>4. \A v : SameValue(node, v)' = SameValue(node, v)
  BY <1>1 DEF SameValue
<1>5. CASE UNCHANGED <<phase, flagged, backtrack>>
  <2>1. PlaceInv'
    BY <1>2, <1>3, <1>5 DEF PlaceInv
  <2>2. ValueInv'
    BY <1>4, <1>5 DEF ValueInv, ReadsBehind
  <2> QED BY <1>2, <1>5, <2>1, <2>2
<1>6. CASE SetBacktrack
  <2>0. phase = "run" /\ phase' = "run" /\ flagged' = TRUE /\ backtrack' = TRUE
    BY <1>6 DEF SetBacktrack
  <2>1. PlaceInv'
    BY <1>2, <1>3, <2>0 DEF PlaceInv
  <2>2. ValueInv'
    BY <1>4, <2>0 DEF ValueInv, ReadsBehind
  <2> QED BY <1>2, <2>0, <2>1, <2>2
<1>7. CASE EndExecution
  <2>0. phase = "run" /\ phase' = "end" /\ flagged' = flagged /\ backtrack' = backtrack
    BY <1>7 DEF EndExecution
  <2>1. PlaceInv'
    BY <1>2, <1>3, <2>0 DEF PlaceInv
  <2>2. ValueInv'
    BY <1>4, <2>0 DEF ValueInv, ReadsBehind
  <2> QED BY <1>2, <2>0, <2>1, <2>2
<1>8. CASE Replay
  <2>0. phase = "end" /\ phase' = "reach" /\ alive /\ ~fresh
    BY <1>8 DEF Replay, PlaceInv
  <2>1. PlaceInv'
    BY <1>2, <1>3, <2>0 DEF PlaceInv
  <2>2. ValueInv'
    BY <1>4, <2>0 DEF ValueInv, ReadsBehind
  <2> QED BY <1>2, <2>0, <2>1, <2>2
<1> QED BY <1>5, <1>6, <1>7, <1>8

LEMMA InitAInv == Init => AInv /\ A!Init
<1> SUFFICES ASSUME Init PROVE AInv /\ A!Init
  OBVIOUS
<1>1. IInv
  BY InitIInv
<1>2. /\ act \in Actions /\ phase = "reach" /\ fresh = TRUE /\ ran = {} /\ sent = {}
      /\ node = [NewNode EXCEPT !.resolve = FirstResolvable] /\ Sound(node)
  BY <1>1 DEF Init, IInv
<1>3. /\ node.status = "PAST" /\ node.past_idx = 0 /\ node.promise_idx = -1
      /\ node.future_values = <<>> /\ node.future_index = -1 /\ node.resolve_idx = -1
      /\ node.misc_index = 0 /\ node.break_idx = 0 /\ node.resolve = FirstResolvable
  BY <1>2 DEF NewNode
<1>4. Legal = Menu(node.future_values)
  BY <1>2, LegalIs
<1>5. Ordered(node)
  BY <1>3 DEF Ordered
<1>6. Ready(node)
  <2>1. Counted(node)
    BY <1>3 DEF Counted, UpTo
  <2>2. CASE act.kind = "write"
    <3>1. Allowed(Current(node), node.future_values) = FirstResolvable
      BY <1>3, <2>2 DEF Allowed, Current, ReadKinds, FirstResolvable
    <3> QED BY <1>3, <2>1, <2>2, <3>1 DEF Ready, Settled, ReadKinds
  <2>3. CASE act.kind # "write" /\ act.kind \notin ReadKinds
    BY <1>3, <2>1, <2>3 DEF Ready, Settled, Allowed, FirstResolvable, ReadKinds
  <2>4. CASE act.kind \in ReadKinds
    BY <1>3, <2>1, <2>4 DEF Ready, FirstResolvable, ReadKinds
  <2> QED BY <2>2, <2>3, <2>4
<1>7. MadeBefore
  <2>1. ASSUME NEW c \in Menu(node.future_values) PROVE ~Before(c, node)
    <3>1. c.misc \in Nat /\ c.break \in Nat /\ c.resolve \in Int /\ c.resolve >= -1
          /\ c.rf \in Readable(node.future_values)
      BY <1>2, MenuPlace
    <3>2. ~ReadBefore(c.rf, node)
      <4>1. CASE act.kind \in ReadKinds
        <5>1. c.rf \in Listed(node)
          BY <3>1, <4>1, ReadableListed
        <5>2. CASE \E i \in 0..act.past - 1 : c.rf = Past(i)
          BY <1>3, <5>2, PastAt
        <5>3. CASE \E i \in 0..act.inherited - 1 : c.rf = Promised(i)
          BY <1>3, <5>3, PromisedAt
        <5>4. ~(\E i \in DOMAIN node.future_values : c.rf = Future(i - 1))
          BY <1>3
        <5> QED BY <5>1, <5>2, <5>3, <5>4 DEF Listed
      <4>2. CASE act.kind \notin ReadKinds
        BY <3>1, <4>2, NoReadAt DEF Readable
      <4> QED BY <4>1, <4>2
    <3> QED BY <1>3, <3>1, <3>2 DEF Before
  <2> QED BY <1>2, <1>4, <2>1 DEF MadeBefore
<1>8. PlaceInv
  BY <1>2, <1>5, <1>6, <1>7 DEF PlaceInv
<1>9. ValueInv
  <2>1. Len(node.future_values) = 0 /\ DOMAIN node.future_values = {}
    BY <1>3
  <2> QED BY <1>2, <2>1, OptionsAssumption DEF ValueInv
<1>10. A!Init
  <2>1. IsFiniteSet(Menu(node.future_values))
    BY <1>2, MenuFinite DEF Sound, Ranges, Nodes
  <2>2. (phase = "left") = FALSE
    BY <1>2
  <2>3. ran = {}
    BY <1>2
  <2>4. A!IsFiniteSet(Legal)
    BY <1>4, <2>1 DEF A!IsFiniteSet, IsFiniteSet
  <2> QED BY <2>2, <2>3, <2>4, Zenon DEF A!Init
<1> QED BY <1>1, <1>8, <1>9, <1>10 DEF AInv

\* Every step of the node is a step of the agenda, or one it does not see.
LEMMA NextAInv == AInv /\ [Next]_vars => AInv' /\ [A!Next]_<<Legal, ran, phase = "left">>
<1> SUFFICES ASSUME AInv, [Next]_vars PROVE AInv' /\ [A!Next]_<<Legal, ran, phase = "left">>
  OBVIOUS
<1>0. IInv /\ PlaceInv /\ ValueInv /\ IInv'
  BY NextStep DEF AInv
<1>1. CASE Reach
  <2>1. PlaceInv' /\ Legal' = Legal /\ (ran' = ran \/ \E c \in Legal \ ran : ran' = ran \cup {c})
    BY <1>0, <1>1, ReachPlace
  <2>2. phase # "left" /\ phase' # "left"
    BY <1>1 DEF Reach
  <2>3. ValueInv'
    BY <1>0, <1>1, ReachValues
  <2> QED BY <1>0, <2>1, <2>2, <2>3 DEF AInv, A!Next, A!Run
<1>2. CASE \E fv \in FutureValues : SendFutureValue(fv)
  <2>1. PICK fv \in FutureValues : SendFutureValue(fv)
    BY <1>2
  <2>2. PlaceInv' /\ Legal \subseteq Legal' /\ ValueInv'
    BY <1>0, <2>1, SendPlace, SendValues
  <2>3. phase # "left" /\ phase' # "left" /\ ran' = ran
    BY <2>1 DEF SendFutureValue
  <2> QED BY <1>0, <2>2, <2>3 DEF AInv, A!Next, A!Learn
<1>3. CASE Diverge
  <2>1. PlaceInv' /\ ValueInv' /\ Legal' = Legal /\ (phase' = "left" => Legal \subseteq ran)
    BY <1>0, <1>3, DivergePlace
  <2>2. phase # "left" /\ ran' = ran
    BY <1>3 DEF Diverge
  <2> QED BY <1>0, <2>1, <2>2 DEF AInv, A!Next, A!Close
<1>4. CASE Leave
  <2>1. PlaceInv' /\ ValueInv' /\ Legal \subseteq ran
    BY <1>0, <1>4, LeavePlace
  <2>2. phase # "left" /\ phase' = "left" /\ ran' = ran /\ act' = act /\ node' = node
    BY <1>4 DEF Leave
  <2>3. Legal' = Legal
    BY <1>0, <2>2, Primed, LegalIs DEF IInv
  <2> QED BY <1>0, <2>1, <2>2, <2>3 DEF AInv, A!Next, A!Close
<1>5. CASE SetBacktrack \/ EndExecution \/ Replay \/ UNCHANGED vars
  <2>1. UNCHANGED <<act, node, fresh, alive, ran, sent, received>>
    BY <1>5 DEF SetBacktrack, EndExecution, Replay, vars
  <2>2. UNCHANGED <<phase, flagged, backtrack>> \/ SetBacktrack \/ EndExecution \/ Replay
    BY <1>5 DEF vars
  <2>3. PlaceInv' /\ ValueInv' /\ Legal' = Legal /\ (phase' = "left" <=> phase = "left")
    BY <1>0, <2>1, <2>2, QuietPlace
  <2> QED BY <1>0, <2>1, <2>3 DEF AInv
<1> QED BY <1>1, <1>2, <1>3, <1>4, <1>5 DEF Next

\* A Node implements Agenda: each choice there is, also one that turns up
\* while the search goes on, is made exactly once before get_next_thread and
\* get_next_backtrack leave the node behind.
THEOREM ChoicesAreMadeOnce == Spec => A!Spec
BY InitAInv, NextAInv, PTL DEF Spec, A!Spec

\* No future value that add_future_value was given is lost: it was read, or the
\* same value of the same thread was, with an expiration that was not much
\* shorter, or there were as many as maxfuturevalues allows.
THEOREM SentValuesAreRead == Spec => []ValuesAreRead
<1>1. AInv => ValuesAreRead
  <2> SUFFICES ASSUME AInv, phase = "left", NEW fv \in sent
               PROVE  \/ \E r \in received : /\ r.value = fv.value /\ r.tid = fv.tid
                                             /\ r.expiration + ExpireSlop >= fv.expiration
                      \/ MaxFutureValues > 0 /\ Len(node.future_values) = MaxFutureValues
    BY DEF ValuesAreRead
  <2>1. ValueInv
    BY DEF AInv
  <2>2. CASE \E i \in SameValue(node, fv) : node.future_values[i].expiration + ExpireSlop >= fv.expiration
    <3>1. PICK i \in SameValue(node, fv) : node.future_values[i].expiration + ExpireSlop >= fv.expiration
      BY <2>2
    <3>2. i \in DOMAIN node.future_values /\ node.future_values[i].value = fv.value
          /\ node.future_values[i].tid = fv.tid
      BY DEF SameValue
    <3>3. node.future_values[i] \in received
      BY <2>1, <3>2 DEF ValueInv
    <3> QED BY <3>1, <3>2, <3>3
  <2>3. CASE MaxFutureValues > 0 /\ Len(node.future_values) = MaxFutureValues
    BY <2>3
  <2> QED BY <2>1, <2>2, <2>3 DEF ValueInv
<1> QED BY InitAInv, NextAInv, <1>1, PTL DEF Spec
=============================================================================
