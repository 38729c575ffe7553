------------------------------- MODULE MCJoin -------------------------------
EXTENDS Join

(* Of the hosts c, b start while l form a liveset, x are excluded and d    *)
(* may crash.                                                              *)
Start(c, b, l, x, d, p, state) ==
    [config |-> c, boots |-> b, live |-> l, excluded |-> x, dies |-> d, parts |-> p, pool |-> state]

Starts == {
    Start({0, 1}, {0, 1}, {}, {}, {}, {{0, 1}}, "INIT"),            \* HA is enabled
    Start({0, 1}, {0, 1}, {}, {}, {}, {{0, 1}}, "ACTIVE"),          \* the pool boots
    Start({0, 1, 2}, {0, 1}, {}, {0}, {}, {{0, 1}}, "ACTIVE"),      \* ... a host is missing
    Start({0, 1, 2}, {0, 2}, {}, {}, {}, {{0, 1, 2}}, "ACTIVE"),    \* ... and nobody is excluded
    Start({0, 1}, {0, 1}, {}, {}, {}, {{0}, {1}}, "ACTIVE"),        \* ... without a network
    Start({0, 1, 2}, {0, 1, 2}, {}, {}, {}, {{0}, {1, 2}}, "ACTIVE"), \* ... in two parts
    Start({0, 1}, {1}, {0, 1}, {}, {}, {{0, 1}}, "ACTIVE"),         \* a host was reset
    Start({0, 1}, {1}, {0}, {}, {}, {{0}, {1}}, "ACTIVE"),          \* a host has no network
    Start({0, 1}, {1}, {0}, {}, {}, {{0, 1}}, "INIT"),              \* the pool state is wrong
    Start({0, 1}, {1}, {0}, {}, {0}, {{0, 1}}, "ACTIVE"),           \* a host joins one that dies
    Start({0, 1, 2}, {2}, {0, 1}, {2}, {}, {{0, 1, 2}}, "ACTIVE")}  \* an excluded one comes back
=============================================================================
