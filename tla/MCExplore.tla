------------------------------ MODULE MCExplore ------------------------------
EXTENDS Explore

FourThreads == 1..4

R(x) == Op("READ", x)
W(x) == Op("WRITE", x)
L(m) == Op("LOCK", m)
U(m) == Op("UNLOCK", m)
Try(m) == Op("TRYLOCK", m)
Wait   == WaitOp("c", "m")
Notify == Op("NOTIFY_ALL", "c")
Yield  == Plain("YIELD")
Spin(x) == <<Op("SPIN", x), Plain("AGAIN")>>

\* user_main creates the other threads and joins them.
Program(body) ==
    LET n == Len(body)
    IN  [t \in FourThreads |->
          IF t = 1 THEN [i \in 1..n |-> ThreadOp("CREATE", i + 1)] \o [i \in 1..n |-> ThreadOp("JOIN", i + 1)]
          ELSE IF t <= n + 1 THEN body[t - 1] ELSE <<>>]

Options(p, y, w, c, b) ==
    [prog |-> Program(p), yieldon |-> y, fairwindow |-> w, enabledcount |-> c, bound |-> b]

\* Loads and stores of two variables by two threads, up to the names.
Accesses == {R("x"), W("x"), R("y"), W("y")}
Atomics  == {<<<<R("x"), b>>, <<c, d>>>> : b, c, d \in Accesses}

ThreeUsers ==
    {<<<<R("x"), W("x")>>, <<W("x")>>, <<a>>>> : a \in Accesses}
    \cup {<<<<L("m"), U("m")>>, <<L("m"), U("m")>>, <<R("x")>>>>}

Trying  == <<Try("m"), W("x"), U("m")>>
Waiting == <<L("m"), Wait, L("m"), U("m")>>
NotifyOne == {<<Waiting, <<L("m"), Op("NOTIFY_ONE", "c"), U("m")>>>>}
Sections ==
    {<<L("m"), R("x"), W("x"), U("m")>>, <<R("x"), L("m"), U("m"), W("x")>>,
     <<L("m"), L("n"), U("n"), U("m")>>, <<L("n"), L("m"), U("m"), U("n")>>,
     <<L("m"), Notify, U("m")>>, Trying, Waiting}
TwoTries == {<<Trying, Trying>>, <<Trying, Waiting>>, <<Waiting, Trying>>}
Mutexes  == {<<a, b>> : a, b \in Sections} \ TwoTries

\* Loops that wait for the other thread, and yields everywhere.
Loops ==
    {<<Spin("x"), <<W("x")>>>>, <<Spin("x"), <<Yield, W("x")>>>>,
     <<Spin("x") \o <<W("y")>>, <<W("x")>> \o Spin("y")>>,
     <<Spin("x"), <<W("x")>>, Spin("x")>>}
Yields ==
    {<<<<Yield, Yield>>, <<Yield, Yield>>, <<Yield>>>>,
     <<<<R("x"), Yield, W("x")>>, <<Yield, W("x"), Yield>>>>,
     <<<<L("m"), Yield, U("m")>>, <<Yield, L("m"), U("m")>>>>}

AllConfigs ==
    {Options(p, FALSE, 0, 0, 0) : p \in Atomics \cup ThreeUsers \cup Mutexes \cup NotifyOne}
    \cup {Options(p, TRUE, 0, 0, 40) : p \in Loops \cup Yields}
    \cup {Options(p, FALSE, 4, 3, 50) : p \in Loops}

TryConfigs == {Options(<<Trying, Trying>>, FALSE, 0, 0, 0)}
=============================================================================
