--------------------------- MODULE MCArtifactWriter ---------------------------
(* Instances of ArtifactWriter for TLC: an output root with one file at its  *)
(* top and one sub-directory; the sub-directory's two paths differ only by   *)
(* case and name one file, as on Windows and macOS.                          *)
EXTENDS ArtifactWriter, TLC

CONSTANTS t1, t2, p1, p2, old, new

MC_OneProcess == [t \in Threads |-> p1]
MC_TwoProcesses == (t1 :> p1) @@ (t2 :> p2)

MC_Paths == {"all.txt", "by_country/us.txt", "by_country/US.txt"}
MC_Fold == [p \in Paths |->
              IF p = "by_country/US.txt" THEN "by_country/us.txt" ELSE p]
MC_FileOf == [p \in Paths |-> IF p = "all.txt" THEN "all" ELSE "us"]
MC_DirOf == [f \in Files |-> IF f = "all" THEN "root" ELSE "by_country"]

At(p, d) == [path |-> p, data |-> d]
Call(items, root, sub, skip) ==
    [items |-> items, create_root |-> root, create_dirs |-> sub,
     skip_identical |-> skip]

\* Bundles written by write_outputs: top file first, then the country file.
Bundle(d, e) == <<At("all.txt", d), At("by_country/us.txt", e)>>

\* A bundle with skip_identical, another one that shares its second target, and
\* a bundle that must be refused because two of its paths differ only by case.
MC_Bundles ==
    {Call(Bundle(old, old), TRUE, TRUE, TRUE),
     Call(<<At("by_country/us.txt", new)>>, TRUE, TRUE, FALSE),
     Call(<<At("by_country/us.txt", new), At("by_country/US.txt", old)>>,
          TRUE, TRUE, TRUE)}

\* Two writers of the country file, one of which skips identical bytes.
MC_Rivals ==
    {Call(<<At("by_country/us.txt", old)>>, TRUE, TRUE, TRUE),
     Call(<<At("by_country/us.txt", new)>>, TRUE, TRUE, FALSE)}

\* Two writers of the country file, one of which may not create anything, a
\* target that is a link and a path that is refused.
MC_Mixed ==
    {Call(<<At("by_country/us.txt", old)>>, FALSE, FALSE, TRUE),
     Call(<<At("by_country/us.txt", new)>>, TRUE, TRUE, FALSE),
     Call(<<At("all.txt", new)>>, TRUE, TRUE, FALSE),
     Call(<<At("by_country/US.txt", new)>>, TRUE, TRUE, FALSE)}

\* What two processes do that may be killed.
MC_Faulty == MC_Rivals \cup MC_Mixed
===============================================================================
