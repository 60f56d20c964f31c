------------------------------ MODULE Atomics ------------------------------
(***************************************************************************)
(* The atomic types as the program under test sees them: impatomic.h,      *)
(* impatomic.cc and cmodelint.cc.  One object of any of the types; the     *)
(* overloads of each function and member are tables that lead to one of    *)
(* five macros, and each macro to one or two actions of the model checker, *)
(* which keeps every value as a 64-bit word.                               *)
(*                                                                         *)
(* The model checker behind it is the modification order of the object and *)
(* what each thread has seen of it (module Exec has the rest); memory      *)
(* orders are passed through and left out here, and a load of a store to   *)
(* come is not modelled.                                                   *)
(***************************************************************************)
EXTENDS Integers, Sequences, FiniteSets, Functions, TLC
LOCAL INSTANCE Bitwise

CONSTANTS Threads, NONE,
    Bits,          \* of the C types: [char, short, int, long, address]
    WordBits,      \* of a value of a ModelAction
    CharSigned,    \* whether plain char is
    Operands,      \* what the program passes
    MaxStores      \* for each type, the bound on the stores to the object

ASSUME BitsAssumption == \A c \in DOMAIN Bits : Bits[c] \in 2..WordBits

VARIABLES
    type,      \* of the object: a name of struct
    stores,    \* its modification order: [word, rmw]
    seen,      \* the position in stores that each thread has seen
    pending,   \* the call of which a thread has done ATOMIC_RMWR: [call, pos]
    next,      \* the thread that action_select_next_thread insists on
    spinning,  \* threads in the loop of __atomic_flag_wait__
    owners,    \* threads that got the flag and have not cleared it
    result     \* what the last call returned, until an update begins: [by, call, value, ok]

vars == <<type, stores, seen, pending, next, spinning, owners, result>>

-----------------------------------------------------------------------------
(* The tables.  A function is a macro and, for _ATOMIC_MODIFY_, its __o__; *)
(* an operator is a member, its operand and what it makes of the result.   *)

Macro(m, o) == [macro |-> m, o |-> o]
Operator(f, v, answer) == [member |-> f, operand |-> v, answer |-> answer]

Exchanging ==
    [load     |-> Macro("LOAD", ""), store |-> Macro("STORE", ""),
     exchange |-> Macro("MODIFY", "="),
     compare_exchange_weak   |-> Macro("CMPSWP", ""),
     compare_exchange_strong |-> Macro("CMPSWP", "")]
Pointing == [fetch_add |-> Macro("MODIFY", "+"), fetch_sub |-> Macro("MODIFY", "-")]
Fetching == Pointing @@ [fetch_and |-> Macro("MODIFY", "&"), fetch_or |-> Macro("MODIFY", "|"),
                         fetch_xor |-> Macro("MODIFY", "^")]

Assigning  == "=" :> Operator("store", "v", "new")
AddressOperators == Assigning @@ "+=" :> Operator("fetch_add", "v", "old")
                              @@ "-=" :> Operator("fetch_sub", "v", "old")
IntegralOperators == Assigning
    @@ "x++" :> Operator("fetch_add", "1", "old") @@ "x--" :> Operator("fetch_sub", "1", "old")
    @@ "++x" :> Operator("fetch_add", "1", "new") @@ "--x" :> Operator("fetch_sub", "1", "new")
    @@ "+="  :> Operator("fetch_add", "v", "new") @@ "-="  :> Operator("fetch_sub", "v", "new")
    @@ "&="  :> Operator("fetch_and", "v", "new") @@ "|="  :> Operator("fetch_or", "v", "new")
    @@ "^="  :> Operator("fetch_xor", "v", "new")
\* atomic_int compares by adding 0 to what it holds.
IntComparisons == [r \in {"==", ">", ">=", "<", "<="} |-> Operator("fetch_add", "0", r)]

Struct(bits, signed, operators) == [bits |-> bits, signed |-> signed, operators |-> operators]

atomic_flag    == Struct(1, FALSE, <<>>)
atomic_bool    == Struct(1, FALSE, Assigning)
atomic_address == Struct(Bits.address, FALSE, AddressOperators)
atomic_char    == Struct(Bits.char, CharSigned, IntegralOperators)
atomic_schar   == Struct(Bits.char, TRUE, IntegralOperators)
atomic_uchar   == Struct(Bits.char, FALSE, IntegralOperators)
atomic_short   == Struct(Bits.short, TRUE, IntegralOperators)
atomic_ushort  == Struct(Bits.short, FALSE, IntegralOperators)
atomic_int     == Struct(Bits.int, TRUE, IntegralOperators @@ IntComparisons)
atomic_uint    == Struct(Bits.int, FALSE, IntegralOperators)
atomic_long    == Struct(Bits.long, TRUE, IntegralOperators)
atomic_ulong   == Struct(Bits.long, FALSE, IntegralOperators)
atomic_llong   == Struct(Bits.long, TRUE, IntegralOperators)
atomic_ullong  == Struct(Bits.long, FALSE, IntegralOperators)
atomic_wchar_t == Struct(Bits.int, TRUE, IntegralOperators)
\* The operators with arithmetic of a pointer to T do not compile.
atomic_pointer == Struct(Bits.address, FALSE, Assigning)

struct == [flag |-> atomic_flag, bool |-> atomic_bool, address |-> atomic_address,
           char |-> atomic_char, schar |-> atomic_schar, uchar |-> atomic_uchar,
           short |-> atomic_short, ushort |-> atomic_ushort, int |-> atomic_int, uint |-> atomic_uint,
           long |-> atomic_long, ulong |-> atomic_ulong, llong |-> atomic_llong, ullong |-> atomic_ullong,
           wchar_t |-> atomic_wchar_t, pointer |-> atomic_pointer]

\* atomic_load, atomic_store, ... of each type; atomic_fetch_add, ...
Of(names, table) == [n \in names |-> table]
exchange_bool_char     == Of({"bool", "address", "char"}, Exchanging)
exchange_schar_short   == Of({"schar", "uchar", "short"}, Exchanging)
exchange_ushort_uint   == Of({"ushort", "int", "uint"}, Exchanging)
exchange_long_llong    == Of({"long", "ulong", "llong"}, Exchanging)
exchange_ullong_wchar  == Of({"ullong", "wchar_t"}, Exchanging)
fetch_address          == Of({"address"}, Pointing)
fetch_char_uchar       == Of({"char", "schar", "uchar"}, Fetching)
fetch_short_int        == Of({"short", "ushort", "int"}, Fetching)
fetch_uint_ulong       == Of({"uint", "long", "ulong"}, Fetching)
fetch_llong_wchar      == Of({"llong", "ullong", "wchar_t"}, Fetching)

exchange_functions == exchange_bool_char @@ exchange_schar_short @@ exchange_ushort_uint
                      @@ exchange_long_llong @@ exchange_ullong_wchar
fetch_functions == fetch_address @@ fetch_char_uchar @@ fetch_short_int @@ fetch_uint_ulong @@ fetch_llong_wchar
functions(T) == exchange_functions[T] @@ (IF T \in DOMAIN fetch_functions THEN fetch_functions[T] ELSE <<>>)

\* The members of the classes: each passes its arguments to the function.
Forward(names, table) == Restrict(table, names)
members_bool_schar   == Forward({"bool", "address", "char", "schar"}, exchange_functions)
members_uchar_int    == Forward({"uchar", "short", "ushort", "int"}, exchange_functions)
members_uint_llong   == Forward({"uint", "long", "ulong", "llong"}, exchange_functions)
members_ullong_wchar == Forward({"ullong", "wchar_t"}, exchange_functions)
fetch_members_address_int == Forward({"address", "char", "schar", "uchar", "short", "ushort"}, fetch_functions)
fetch_members_int_wchar   == Forward({"int", "uint", "long", "ulong", "llong", "ullong", "wchar_t"}, fetch_functions)
members_pointer == [pointer |-> exchange_functions["address"]]

exchange_members == members_bool_schar @@ members_uchar_int @@ members_uint_llong
                    @@ members_ullong_wchar @@ members_pointer
fetch_members == fetch_members_address_int @@ fetch_members_int_wchar
members(T) == exchange_members[T] @@ (IF T \in DOMAIN fetch_members THEN fetch_members[T] ELSE <<>>)

-----------------------------------------------------------------------------
(* Values: a field has the width of its type, a word that of an action.    *)

Word(x) == x % 2^WordBits

\* The casts to __typeof__((__a__)->__f__); that to bool asks for 0.
Cast(T, x) ==
    LET b == struct[T].bits
        r == x % 2^b
    IN  IF b = 1 THEN IF x = 0 THEN 0 ELSE 1
        ELSE IF struct[T].signed /\ r >= 2^(b-1) THEN r - 2^b ELSE r

\* __copy__ __o__ __v__, done in a wider type.
Apply(o, x, v) ==
    CASE o = "=" -> v
      [] o = "+" -> x + v
      [] o = "-" -> x - v
      [] o = "&" -> Word(x) & Word(v)
      [] o = "|" -> Word(x) | Word(v)
      [] o = "^" -> Word(x) ^^ Word(v)

Truth(b) == IF b THEN 1 ELSE 0
Compare(r, x, v) ==
    Truth(CASE r = "==" -> x = v [] r = ">" -> x > v [] r = ">=" -> x >= v [] r = "<" -> x < v [] r = "<=" -> x <= v)

(***************************************************************************)
(* Calls.  A C program uses the macros as they are: its operands keep      *)
(* their own type.  A C++ program goes through members and operators,      *)
(* whose parameters convert.                                               *)
(***************************************************************************)
Call(name, f, v, e, answer) == [name |-> name, function |-> f, arg |-> v, expected |-> e, answer |-> answer]
Void(f) == IF f = "store" THEN "none" ELSE "old"

\* What a function is passed: an operand, and for a comparison an expected value.
Passed(f) == (IF f = "load" THEN {0} ELSE Operands)
             \X (IF f \in {"compare_exchange_weak", "compare_exchange_strong"} THEN Operands ELSE {0})

CFunctions(T) == UNION {{Call(f, functions(T)[f], x[1], Cast(T, x[2]), Void(f)) : x \in Passed(f)} :
                            f \in DOMAIN functions(T)}
Members(T) == UNION {{Call(f, members(T)[f], Cast(T, x[1]), Cast(T, x[2]), Void(f)) : x \in Passed(f)} :
                            f \in DOMAIN members(T)}
\* v is the operand of the comparisons too: what they pass to fetch_add is 0.
Operand(operator, v) == CASE operator.operand = "v" -> v [] operator.operand = "1" -> 1 [] operator.operand = "0" -> 0
Operators(T) == LET operators == struct[T].operators
                IN  {Call(s, members(T)[operators[s].member], Cast(T, Operand(operators[s], v)), Cast(T, v), operators[s].answer) :
                        s \in DOMAIN operators, v \in Operands}

test_and_set == Call("test_and_set", Macro("MODIFY", "="), 1, 0, "old")
flag_wait    == Call("wait", Macro("MODIFY", "="), 1, 0, "old")
flag_clear   == Call("clear", Macro("STORE", ""), 0, 0, "none")

\* What the operator returns, computed again from what the member returned.
Returned(c, old) ==
    CASE c.answer = "none" -> 0
      [] c.answer = "old"  -> old
      [] c.answer = "new"  -> Cast(type, Apply(c.function.o, old, c.arg))
      [] OTHER             -> Compare(c.answer, old, c.expected)

-----------------------------------------------------------------------------
(* The model checker.                                                      *)

Free == Len(stores) < MaxStores[type]
CanRun(t) == pending[t] = NONE /\ next \in {t, NONE}

\* Mutant: addRMWEdge does not see that the store has been updated before.
Taken_Never(p) == FALSE

\* The store behind p is the second half of an update of p.  addRMWEdge of
\* another one makes the execution infeasible, and a store in between closes
\* a cycle: neither is a step.
Taken(p) == p < Len(stores) /\ stores[p+1].rmw

Insert(t, p, word, rmw) ==
    /\ stores' = SubSeq(stores, 1, p-1) \o <<[word |-> word, rmw |-> rmw]>> \o SubSeq(stores, p, Len(stores))
    /\ seen' = [u \in Threads |-> IF u = t THEN p ELSE IF seen[u] >= p THEN seen[u] + 1 ELSE seen[u]]

NoAnswer == [by |-> NONE, call |-> flag_clear, value |-> 0, ok |-> TRUE]
Answer(t, c, value, ok) == result' = [by |-> t, call |-> c, value |-> value, ok |-> ok]

\* Do not split atomic RMW.
action_select_next_thread(t) == t

\* Mutant: a load returns the word as it is.
ATOMIC_LOAD_Raw(t, c) == \E p \in seen[t]..Len(stores) :
    /\ c.function.macro = "LOAD" /\ CanRun(t)
    /\ seen' = [seen EXCEPT ![t] = p]
    /\ Answer(t, c, stores[p].word, TRUE)
    /\ UNCHANGED <<type, stores, pending, next, spinning, owners>>

ATOMIC_LOAD(t, c) == \E p \in seen[t]..Len(stores) :
    /\ c.function.macro = "LOAD" /\ CanRun(t)
    /\ seen' = [seen EXCEPT ![t] = p]
    /\ Answer(t, c, Cast(type, stores[p].word), TRUE)
    /\ UNCHANGED <<type, stores, pending, next, spinning, owners>>

ATOMIC_STORE(t, c) == \E p \in seen[t]+1..Len(stores)+1 :
    /\ c.function.macro = "STORE" /\ CanRun(t) /\ Free
    /\ ~Taken(p-1)
    /\ Insert(t, p, Word(c.arg), FALSE)
    /\ Answer(t, c, IF c.answer = "none" THEN 0 ELSE c.arg, TRUE)
    /\ owners' = IF c = flag_clear THEN owners \ {t} ELSE owners
    /\ UNCHANGED <<type, pending, next, spinning>>

\* model_rmwr_action, the first half of _ATOMIC_MODIFY_ and _ATOMIC_CMPSWP_:
\* it reads as a load does, and may read a store that an update follows.
RMWR(t, c) == \E p \in seen[t]..Len(stores) :
    /\ c.function.macro \in {"MODIFY", "CMPSWP"} /\ CanRun(t)
    /\ pending' = [pending EXCEPT ![t] = [call |-> c, pos |-> p]]
    /\ next' = action_select_next_thread(t)
    /\ result' = NoAnswer
    /\ UNCHANGED <<type, stores, seen, spinning, owners>>

Closed(t) == pending' = [pending EXCEPT ![t] = NONE] /\ next' = NONE

\* model_rmw_action with __copy__.  Behind a store that is Taken the execution
\* is infeasible and goes no further.
ATOMIC_MODIFY(t) ==
    LET c == pending[t].call
        p == pending[t].pos
        old == Cast(type, stores[p].word)
    IN  /\ pending[t] # NONE /\ next \in {t, NONE}
        /\ c.function.macro = "MODIFY" /\ Free /\ ~Taken(p)
        /\ Insert(t, p+1, Word(Cast(type, Apply(c.function.o, old, c.arg))), TRUE)
        /\ Answer(t, c, Returned(c, old), TRUE)
        /\ Closed(t)
        /\ spinning' = IF c = flag_wait /\ old = 1 THEN spinning \cup {t} ELSE spinning \ {t}
        /\ owners' = IF type = "flag" /\ old = 0 THEN owners \cup {t} ELSE owners
        /\ UNCHANGED type

\* model_rmw_action with __v__, which may be infeasible too, or
\* model_rmwc_action, which leaves a load.
ATOMIC_CMPSWP(t) ==
    LET c == pending[t].call
        p == pending[t].pos
        old == Cast(type, stores[p].word)
    IN  /\ pending[t] # NONE /\ next \in {t, NONE}
        /\ c.function.macro = "CMPSWP"
        /\ \/ old = c.expected /\ Free /\ ~Taken(p) /\ Insert(t, p+1, Word(c.arg), TRUE)
           \/ old # c.expected /\ seen' = [seen EXCEPT ![t] = p] /\ UNCHANGED stores
        /\ Answer(t, c, old, old = c.expected)
        /\ Closed(t)
        /\ UNCHANGED <<type, spinning, owners>>

-----------------------------------------------------------------------------
(* atomic_flag.  Only the owner of the flag clears it, as a lock's user    *)
(* does; only others wait for it.                                          *)

TestAndSet(t) == t \notin spinning /\ type = "flag" /\ RMWR(t, test_and_set)
Wait(t)  == t \notin owners /\ type = "flag" /\ RMWR(t, flag_wait)
Clear(t) == t \in owners /\ ATOMIC_STORE(t, flag_clear)

\* The calls of each type.
UserCalls == [T \in DOMAIN struct \ {"flag"} |->
    Members(T) \cup Operators(T) \cup (IF T = "pointer" THEN {} ELSE CFunctions(T))]

\* atomic_init, whose operand a C program does not convert.
Init ==
    /\ type \in DOMAIN struct
    /\ stores \in {<<[word |-> Word(v), rmw |-> FALSE]>> :
                      v \in IF type = "flag" THEN {0} ELSE Operands}
    /\ seen = [t \in Threads |-> 1]
    /\ pending = [t \in Threads |-> NONE] /\ next = NONE
    /\ spinning = {} /\ owners = {}
    /\ result = NoAnswer

Next == \E t \in Threads :
    \/ type # "flag" /\ \E c \in UserCalls[type] : ATOMIC_LOAD(t, c) \/ ATOMIC_STORE(t, c) \/ RMWR(t, c)
    \/ ATOMIC_MODIFY(t) \/ ATOMIC_CMPSWP(t)
    \/ TestAndSet(t) \/ Wait(t) \/ Clear(t)

Spec == Init /\ [][Next]_vars

-----------------------------------------------------------------------------
(* Properties.                                                             *)

TypeOK ==
    /\ type \in DOMAIN struct
    /\ \A p \in DOMAIN stores : stores[p].word \in 0..2^WordBits-1 /\ stores[p].rmw \in BOOLEAN
    /\ ~stores[1].rmw
    /\ seen \in [Threads -> DOMAIN stores]
    /\ \A t \in Threads : pending[t] # NONE => next = t /\ pending[t].pos \in DOMAIN stores
    /\ spinning \subseteq Threads /\ owners \subseteq Threads
    /\ result.by \in Threads \cup {NONE}

\* Whoever got the flag, by testing or by waiting, is alone with it until it
\* is cleared: two test-and-sets never read the same store.
MutualExclusion == \A t, u \in owners : t = u

\* Words and answers have the size of their types, and a flag has one owner.
StateExact == TypeOK /\ MutualExclusion

\* What C++11 promises of a name, with what atomic_int's comparisons and
\* atomic_address's += and -= do, which it does not have.
Promised(c) ==
    LET fn == CASE c.name \in {"load"} -> "load"
                [] c.name \in {"store", "=", "clear"} -> "store"
                [] c.name \in {"compare_exchange_weak", "compare_exchange_strong"} -> "cas"
                [] c.name \in {"exchange", "test_and_set", "wait"} -> "="
                [] c.name \in {"fetch_add", "+=", "x++", "++x", "==", ">", ">=", "<", "<="} -> "+"
                [] c.name \in {"fetch_sub", "-=", "x--", "--x"} -> "-"
                [] c.name \in {"fetch_and", "&="} -> "&"
                [] c.name \in {"fetch_or", "|="} -> "|"
                [] c.name \in {"fetch_xor", "^="} -> "^"
        arg == CASE c.name \in {"test_and_set", "wait", "x++", "++x", "x--", "--x"} -> 1
                 [] c.name \in {"clear", "==", ">", ">=", "<", "<="} -> 0
                 [] OTHER -> c.arg
        answer == CASE c.name \in {"store", "clear"} -> "none"
                    [] c.name \in {"==", ">", ">=", "<", "<="} -> c.name
                    [] c.name \in {"=", "++x", "--x", "&=", "|=", "^="} -> "new"
                    [] c.name \in {"+=", "-="} -> IF type = "address" THEN "old" ELSE "new"
                    [] OTHER -> "old"
    IN  [fn |-> fn, arg |-> arg, expected |-> c.expected, answer |-> answer]

Abstract == INSTANCE AtomicObject WITH
    Calls  <- [fn : {"load", "store", "cas", "=", "+", "-", "&", "|", "^"}, arg : Int, expected : Int,
               answer : {"none", "old", "new", "==", ">", ">=", "<", "<="}],
    type   <- [bits |-> struct[type].bits, signed |-> struct[type].signed],
    order  <- [p \in DOMAIN stores |-> [val |-> Cast(type, stores[p].word), update |-> stores[p].rmw]],
    result <- [by |-> result.by, call |-> Promised(result.call), value |-> result.value, ok |-> result.ok]

\* Every call of every type, from C or C++, does in one step what the atomic
\* object promises: no update is split, lost or done twice, words that were
\* never cut to the width of the type are read right, and each name returns
\* what it should.
ImplementsAtomicObject == Abstract!Spec
=============================================================================
