------------------------ MODULE MCSessionLifecycle ------------------------
(* Operations of every kind on session s1, and some on s2 that compete for slots and   *)
(* for the sweep.  Each run takes the operations its question needs.                    *)
EXTENDS SessionLifecycle, TLC

MCIds == {"s1", "s2"}
Plan == "c1" :> "create" @@ "l1" :> "load" @@ "d1" :> "delete" @@ "x1" :> "expire"
          @@ "m1" :> "command" @@ "m2" :> "command" @@ "q1" :> "query"
          @@ "c2" :> "create" @@ "d2" :> "delete" @@ "x2" :> "expire"

Failing    == {"c1", "l1", "d1", "x1", "c2", "d2"}
Versions   == {"c1", "l1", "d1", "m1", "m2", "q1", "c2"}
Sweeping   == {"c1", "l1", "d1", "x1", "c2", "x2"}
Short      == {"c1", "l1", "d1", "x1", "m1"}

KindOf(ops)   == [o \in ops |-> Plan[o]]
TargetOf(ops) == [o \in ops |-> IF o \in {"c2", "d2", "x2"} THEN "s2" ELSE "s1"]

FailingKind == KindOf(Failing)
FailingTarget == TargetOf(Failing)
VersionsKind == KindOf(Versions)
VersionsTarget == TargetOf(Versions)
SweepingKind == KindOf(Sweeping)
SweepingTarget == TargetOf(Sweeping)
ShortKind == KindOf(Short)
ShortTarget == TargetOf(Short)
=============================================================================
