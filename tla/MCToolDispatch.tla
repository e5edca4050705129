---------------------------- MODULE MCToolDispatch ----------------------------
(* Small instances of ToolDispatch: tools of several stages with one or two      *)
(* specs, under requests that ask for all of them or for some.                   *)
EXTENDS ToolDispatch

Counts(axe, pytest, k6, newman, playwright) ==
    [t \in Tools |-> CASE t = "axe" -> axe [] t = "pytest" -> pytest [] t = "k6" -> k6
                       [] t = "newman" -> newman [] t = "playwright" -> playwright]

Ask(plain, padded) ==
    [name : plain, padded : {FALSE}] \cup [name : padded, padded : {TRUE}]

AllTools ==
    {Ask({}, {}), Ask({"k6"}, {}), Ask({"newman", "zap"}, {}), Ask({"axe", "playwright"}, {}),
     Ask({"k6"}, {"pytest"}), Ask({"other"}, {"newman"})}
Killswitches == {{}, {"R163"}, {"K18"}}
Several ==
    {Counts(0, 0, 1, 0, 1), Counts(0, 3, 0, 0, 0), Counts(0, 1, 1, 0, 0), Counts(1, 0, 0, 2, 0),
     Counts(1, 0, 0, 0, 2)}
=============================================================================
