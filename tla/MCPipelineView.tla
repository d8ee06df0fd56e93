--------------------------- MODULE MCPipelineView ---------------------------
(***************************************************************************)
(* Two kernels of one module, one named through the package that           *)
(* re-exports it, the other where it is defined; and a third, of another   *)
(* module of the package, for the configurations that have it.             *)
(***************************************************************************)
EXTENDS PipelineView, TLC

CONSTANTS k1, k2, k3, p1, p2

MCImportedFrom == k1 :> "pkg" @@ k2 :> "pkg.a" @@ k3 :> "pkg"
MCDefinedIn    == k1 :> "pkg.a" @@ k2 :> "pkg.a" @@ k3 :> "pkg.b"
MCPackage      == [m \in {"pkg", "pkg.a"} |-> "pkg"]
MCWidePackage  == [m \in {"pkg", "pkg.a", "pkg.b"} |-> "pkg"]

MCYamls     == {{}, {k1}, {k2}}
MCBothYamls == SUBSET {k1, k2}
MCWideYamls == SUBSET {k1, k2, k3}
=============================================================================
