--------------------------- MODULE MCNativeSession ---------------------------
(* Small instances of NativeSession: which tasks there are. *)
EXTENDS NativeSessionInv, TLC

CONSTANTS s1, p1, i1, b1, b2, e1, h1, f1, c1, x1, k1, m1

AllKinds ==
  s1 :> "sync" @@ p1 :> "profile" @@ i1 :> "inspect" @@ b1 :> "battle" @@
  b2 :> "battle" @@ e1 :> "equip" @@ h1 :> "hud" @@ f1 :> "perf" @@
  c1 :> "close" @@ x1 :> "exit" @@ k1 :> "idleClose" @@ m1 :> "maintain"

MCKind == [t \in Tasks |-> AllKinds[t]]
=============================================================================
