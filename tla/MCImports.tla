------------------------------ MODULE MCImports --------------------------------
(* Up to four imports of both layouts and of sizes between and beyond, one *)
(* of which may say it is shorter than any or have lost a table, in        *)
(* modules that are whole, cut off, or have a damaged header.  Databases   *)
(* with two libraries in a module, two modules in a file, variables with   *)
(* functions and without, a library without a NID, and the same function   *)
(* in two libraries.                                                       *)
EXTENDS Imports

F(name, nid) == [name |-> name, nid |-> nid]

LibA == [name |-> "A", nid |-> 11, funcs |-> << F("a1", 1), F("a2", 2) >>, vars |-> << >>]
LibB == [name |-> "B", nid |-> 12, funcs |-> << F("b2", 2), F("b3", 3) >>, vars |-> << F("v", 5) >>]
LibC == [name |-> "C", nid |-> 13, funcs |-> << F("c1", 1) >>, vars |-> << >>]
NoNid == [name |-> "D", nid |-> 0, funcs |-> << F("d4", 4) >>, vars |-> << >>]
LibA2 == [LibA EXCEPT !.name = "A2", !.funcs = << F("a6", 6) >>]

Data == [name |-> "E", nid |-> 14, funcs |-> << >>, vars |-> << F("w", 3) >>]

M(nid, ls) == [name |-> "M", nid |-> nid, libs |-> ls]

DbFiles ==
  { << M(7, << LibA, LibB >>) >>, << M(7, << LibB >>), M(8, << LibC >>) >>,
    << M(7, << NoNid >>), M(8, << LibA >>) >>, << M(7, << LibA, NoNid >>), M(8, << >>) >>,
    << M(9, << LibA2 >>) >>, << M(7, << LibC, Data >>), M(15, << LibB >>) >>,
    << M(7, << LibA >>), M(4, << >>), M(8, << LibC >>) >> }

MCDirectories == { << >> } \cup { << f >> : f \in DbFiles } \cup { << f, g >> : f, g \in DbFiles }

--------------------------------------------------------------------------------
Im(size, lib, nids, addrs) ==
  [size |-> size, lib |-> lib, nids |-> nids, addrs |-> addrs, lost |-> {}]

Listed ==
  { << >>,
    << Im(Short, 11, << 1 >>, << 5 >>) >>,
    << Im(Long, 12, << 2, 5 >>, << 9, 4 >>), Im(Short, 11, << 2 >>, << 3 >>) >>,
    << Im(Short, 13, << 8 >>, << 7 >>), Im(Long, 14, << 3, 4 >>, << 7, 2 >>) >>,
    << Im(Long, 11, << >>, << >>), Im(Long, 12, << 1, 9 >>, << 8, 11 >>),
       Im(Short, 11, << 6 >>, << 2 >>), Im(Short, 13, << 1 >>, << 13 >>) >> }

(* The first import has lost a table, or says another size.                *)
Bent(l) ==
  { [l EXCEPT ![1].lost = x] : x \in {{"nids"}, {"addrs"}} }
  \cup { [l EXCEPT ![1].size = n] : n \in {Short - 1, Short + 2, Long + 1} }

Complete(l) ==
  LET n == Len(FileWords(l))
  IN  [listed |-> l, segment |-> 0, version |-> 1, exportTop |-> 0, exportEnd |-> 0,
       importTop |-> HeaderLen, importEnd |-> EntryOffset(l, Len(l) + 1),
       segLen |-> n, fileLen |-> n]

(* Cut in the last table, after the first entry, in the last entry of the  *)
(* table alone, or damaged.                                                *)
Damaged(l) ==
  LET m == Complete(l)
  IN  { [m EXCEPT !.fileLen = @ - 1], [m EXCEPT !.segLen = @ - 1],
        [m EXCEPT !.fileLen = HeaderLen + Short], [m EXCEPT !.fileLen = HeaderLen - 1],
        [m EXCEPT !.importEnd = @ - 1], [m EXCEPT !.segment = 1], [m EXCEPT !.version = 2],
        [m EXCEPT !.exportTop = 1], [m EXCEPT !.importTop = m.importEnd + 1],
        [m EXCEPT !.segLen = m.importEnd - 1] }

MCModules ==
  { Complete(l) : l \in Listed } \cup UNION { Damaged(l) : l \in Listed }
  \cup { Complete(l) : l \in UNION { Bent(x) : x \in Listed \ {<< >>} } }

MCAddresses == 0 .. 14
================================================================================
