---------------------------- MODULE MCCoreClient ----------------------------
(* Small instances of CoreClient: which threads there are. *)
EXTENDS CoreClient

CONSTANTS s, r1, r2, c, a

MCKind == [t \in Tasks |->
             CASE t = s -> "start" [] t \in {r1, r2} -> "request"
               [] t = c -> "close" [] t = a -> "abort"]
MCMethods == {"event.battle.summary", "event.capture.status"}
=============================================================================
