---------------------------- MODULE MCRunEngine ----------------------------
(***************************************************************************)
(* TLC instances of RunEngine.  "gated" is asked for by alice and needs an *)
(* approval, "plain" is asked for by bob, "cron" is fired by the scheduler.*)
(***************************************************************************)
EXTENDS RunEngine, TLC

CONSTANTS alice, bob

Step(runIf, cont) == [runIf |-> runIf, cont |-> cont]

OneOrNone == {1, -1}
MCUsers == {alice, bob}
MCRequester == [r \in Runs |->
    CASE r = "gated" -> alice [] r = "plain" -> bob [] OTHER -> NoUser]
MCScript == [r \in Runs |->
    CASE r = "gated" -> <<Step("always", TRUE), Step("prev-success", FALSE)>>
      [] r = "plain" -> <<Step("always", FALSE), Step("prev-failure", FALSE)>>
      [] OTHER -> <<Step("always", FALSE)>>]
=============================================================================
