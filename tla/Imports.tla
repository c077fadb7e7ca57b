-------------------------------- MODULE Imports --------------------------------
(***************************************************************************)
(* Which firmware function a call reaches.  module.c walks the import      *)
(* table of a module and pairs its tables into stubs; nids.c reads a       *)
(* directory of names line by line; emit.c names the callee of a stub by   *)
(* looking its library and NID up.                                         *)
(*                                                                         *)
(* A module is words; offsets and sizes count words.  Names are values.    *)
(***************************************************************************)
EXTENDS Integers, SequencesExt

CONSTANTS
  Directories,  (* sequences of database files                             *)
  Modules,      (* modules, see Words below                                *)
  MaxImports,   (* VM_MAX_IMPORTS, 256                                     *)
  Base,         (* seg_vaddr                                               *)
  Addresses     (* call targets that are looked up                         *)

VARIABLES
  dir, opened,  (* the directory, and how many of its files were opened    *)
  lines,        (* what is left of the file being read                     *)
  curLib, curNid, inFunctions, libIndent,     (* locals of parse_file      *)
  funcs, libs,                                (* the database              *)
  module,       (* the module                                              *)
  phase,        (* where vm_parse is                                       *)
  at,           (* p: the entry it is at                                   *)
  imports, total, stubs                       (* vm_module                 *)

dbVars  == << dir, opened, lines, curLib, curNid, inFunctions, libIndent, funcs, libs >>
modVars == << module, phase, at, imports, total, stubs >>
vars    == << dbVars, modVars >>

NoName == "no name"
Empty  == -1   (* no value on the line *)

--------------------------------------------------------------------------------
(* The format of vita-headers: modules of libraries of functions and       *)
(* variables, one line each.  A value that is no number reads as 0.        *)

Line(ind, key, val) == [ind |-> ind, key |-> key, val |-> val]

LibLines(l) ==
  << Line(6, l.name, Empty), Line(8, "kernel", 0) >>
  \o (IF l.nid # 0 THEN << Line(8, "nid", l.nid) >> ELSE << >>)
  \o (IF l.funcs # << >> THEN << Line(8, "functions", Empty) >> ELSE << >>)
  \o [k \in 1 .. Len(l.funcs) |-> Line(10, l.funcs[k].name, l.funcs[k].nid)]
  \o (IF l.vars # << >> THEN << Line(8, "variables", Empty) >> ELSE << >>)
  \o [k \in 1 .. Len(l.vars) |-> Line(10, l.vars[k].name, l.vars[k].nid)]

ModuleLines(m) ==
  << Line(2, m.name, Empty), Line(4, "nid", m.nid), Line(4, "libraries", Empty) >>
  \o FlattenSeq([k \in 1 .. Len(m.libs) |-> LibLines(m.libs[k])])

FileLines(f) ==
  << Line(0, "version", 2), Line(0, "modules", Empty) >>
  \o FlattenSeq([k \in 1 .. Len(f) |-> ModuleLines(f[k])])

--------------------------------------------------------------------------------
(* A module file: the header, the import table, and then the two tables of *)
(* each import.  listed is what is in it: an entry has the size it says it *)
(* has, and has lost its pointer to one of its tables, or to both, or to   *)
(* none.  segLen and fileLen are how much of it the segment and the file   *)
(* have.                                                                   *)

HeaderLen == 23   (* 0x5C *)
Short == 9        (* 0x24 *)
Long  == 13       (* 0x34 *)

(* Where import k, and its tables, are. *)
EntryOffset(listed, k) ==
  LET o[j \in 0 .. Len(listed)] == IF j = 0 THEN HeaderLen ELSE o[j - 1] + listed[j].size
  IN  o[k - 1]

TableOffset(listed, k) ==
  LET o[j \in 0 .. Len(listed)] ==
        IF j = 0 THEN EntryOffset(listed, Len(listed) + 1) ELSE o[j - 1] + 2 * Len(listed[j].nids)
  IN  o[k - 1]

NidsAt(listed, k) ==
  IF "nids" \in listed[k].lost THEN 0 ELSE Base + TableOffset(listed, k)

AddrsAt(listed, k) ==
  IF "addrs" \in listed[k].lost THEN 0
  ELSE Base + TableOffset(listed, k) + Len(listed[k].nids)

(* Which word of an entry says what. *)
Layout(size) ==
  IF size >= Long THEN [lib |-> 5, nids |-> 8, addrs |-> 9]
                  ELSE [lib |-> 4, nids |-> 6, addrs |-> 7]

EntryWords(listed, k) ==
  LET im  == listed[k]
      pos == Layout(im.size)
  IN  [j \in 1 .. im.size |->
         CASE j = 1         -> im.size
           [] j = 2         -> Len(im.nids)
           [] j = pos.lib   -> im.lib
           [] j = pos.nids  -> NidsAt(listed, k)
           [] j = pos.addrs -> AddrsAt(listed, k)
           [] OTHER         -> 0]

FileWords(listed) ==
  [k \in 1 .. HeaderLen |-> 0]
  \o FlattenSeq([k \in 1 .. Len(listed) |-> EntryWords(listed, k)])
  \o FlattenSeq([k \in 1 .. Len(listed) |-> listed[k].nids \o listed[k].addrs])

--------------------------------------------------------------------------------
(* What a directory and a module may be: names are no keywords of the      *)
(* format, an entry has a NID, and the two tables of an import are of one  *)
(* length.  An import may say any size, and lose its tables.  The import   *)
(* table is where the header says, or the header is damaged; where the     *)
(* table, the segment and the file end is left open.                       *)

DbEntry  == [name : STRING \ {NoName, "nid"}, nid : Nat \ {0}]
DbLib    == [name : STRING \ {NoName, "libraries", "functions"}, nid : Nat,
             funcs : Seq(DbEntry), vars : Seq(DbEntry)]
DbModule == [name : STRING \ {"libraries", "functions"}, nid : Nat, libs : Seq(DbLib)]

Import == [size : Nat \ {0}, lib : Nat, nids : Seq(Nat), addrs : Seq(Nat),
           lost : SUBSET {"nids", "addrs"}]

WellFormed(m) ==
  /\ m.listed \in Seq(Import)
  /\ \A k \in 1 .. Len(m.listed) : Len(m.listed[k].nids) = Len(m.listed[k].addrs)
  /\ m.importEnd <= EntryOffset(m.listed, Len(m.listed) + 1)
  /\ m.importTop = HeaderLen \/ m.importTop > m.importEnd
  /\ m.importTop \in Nat /\ m.importEnd \in Nat /\ m.segLen \in Nat /\ m.fileLen \in Nat

ASSUME ImportsAssumption ==
  /\ MaxImports \in Nat /\ Base \in Nat \ {0} /\ Addresses \subseteq Nat
  /\ \A d \in Directories : d \in Seq(Seq(DbModule))
  /\ \A m \in Modules : WellFormed(m)

--------------------------------------------------------------------------------
(* module.c *)

Word(o) == FileWords(module.listed)[o + 1]

vm_ptr(off, need) == off + need <= module.segLen /\ off + need <= module.fileLen
vm_va(v, need)    == v >= Base /\ vm_ptr(v - Base, need)

(* The header, and the checks that it is one. *)
ParseHeader ==
  /\ phase = "header"
  /\ phase' = IF /\ module.segment = 0
                 /\ vm_ptr(0, HeaderLen)
                 /\ module.version = 1
                 /\ module.exportTop <= module.exportEnd
                 /\ module.importTop <= module.importEnd
                 /\ module.importEnd <= module.segLen
              THEN "imports" ELSE "failed"
  /\ at' = module.importTop
  /\ UNCHANGED << dbVars, module, imports, total, stubs >>

(* The walk stops at the end, at an entry it cannot read, and at the limit.*)
CanRead(p) ==
  /\ p + 1 <= module.importEnd
  /\ vm_ptr(p, 1)
  /\ Word(p) >= Short /\ p + Word(p) <= module.importEnd
  /\ vm_ptr(p, Word(p))
  /\ Len(imports) < MaxImports

(* Each entry says how long it is, and so which layout it has. *)
Entry(p) ==
  [lib  |-> IF Word(p) >= Long THEN Word(p + 4) ELSE Word(p + 3),
   n    |-> Word(p + 1),
   nids |-> IF Word(p) >= Long THEN Word(p + 7) ELSE Word(p + 5),
   addrs |-> IF Word(p) >= Long THEN Word(p + 8) ELSE Word(p + 6)]

WalkImport ==
  /\ phase = "imports" /\ CanRead(at)
  /\ imports' = Append(imports, Entry(at))
  /\ total' = total + Entry(at).n
  /\ at' = at + Word(at)
  /\ UNCHANGED << dbVars, module, phase, stubs >>

EndWalk ==
  /\ phase = "imports" /\ ~CanRead(at)
  /\ phase' = "stubs" /\ at' = 1
  /\ UNCHANGED << dbVars, module, imports, total, stubs >>

(* The parallel tables of one import; & ~1 clears the Thumb bit. *)
Paired(im) ==
  [k \in 1 .. im.n |->
    [addr |-> (Word(im.addrs - Base + k - 1) \div 2) * 2,
     lib |-> im.lib, nid |-> Word(im.nids - Base + k - 1)]]

PairImport ==
  /\ phase = "stubs" /\ at <= Len(imports)
  /\ LET im == imports[at]
     IN  stubs' = IF vm_va(im.nids, im.n) /\ vm_va(im.addrs, im.n)
                    THEN SubSeq(stubs \o Paired(im), 1,
                                IF Len(stubs) + im.n <= total THEN Len(stubs) + im.n ELSE total)
                    ELSE stubs
  /\ at' = at + 1
  /\ UNCHANGED << dbVars, module, phase, imports, total >>

Sorted(s) == \A j, k \in 1 .. Len(s) : j < k => s[j].addr <= s[k].addr

(* Mutant of Orders: the tables are taken to be in order. *)
OrdersAsFound(s) == {s}

(* qsort: stubs of one address come in any order. *)
Orders(s) ==
  LET I == 1 .. Len(s)
      moved == { f \in [I -> I] : \A j, k \in I : j # k => f[j] # f[k] }
  IN  { t \in { [k \in I |-> s[f[k]]] : f \in moved } : Sorted(t) }

SortStubs ==
  /\ phase = "stubs" /\ at > Len(imports)
  /\ stubs' \in Orders(stubs)
  /\ phase' = "parsed"
  /\ UNCHANGED << dbVars, module, at, imports, total >>

(* What a search of lo .. hi finds, given what it finds in each half. *)
Halve(search, a, lo, hi) ==
  LET mid == lo + ((hi - lo) \div 2)
  IN  CASE lo >= hi                           -> 0
        [] lo < hi /\ stubs[mid + 1].addr = a -> mid + 1
        [] lo < hi /\ stubs[mid + 1].addr < a -> search[<< mid + 1, hi >>]
        [] lo < hi /\ stubs[mid + 1].addr > a -> search[<< lo, mid >>]

vm_find_stub(addr) ==
  LET search[r \in (0 .. Len(stubs)) \X (0 .. Len(stubs))] ==
        Halve(search, (addr \div 2) * 2, r[1], r[2])
  IN  search[<< 0, Len(stubs) >>]

--------------------------------------------------------------------------------
(* nids.c *)

(* parse_file's locals, as it opens the next file. *)
OpenFile ==
  /\ phase = "parsed" /\ opened < Len(dir) /\ lines = << >>
  /\ lines' = FileLines(dir[opened + 1]) /\ opened' = opened + 1
  /\ curLib' = NoName /\ curNid' = 0 /\ inFunctions' = FALSE /\ libIndent' = -1
  /\ UNCHANGED << dir, funcs, libs, modVars >>

(* Mutant of Header: the functions of the last library go on. *)
HeaderGoesOn(line) ==
  IF libIndent >= 0 /\ line.ind = libIndent
    THEN curLib' = line.key /\ curNid' = 0 /\ UNCHANGED inFunctions
    ELSE UNCHANGED << curLib, curNid, inFunctions >>

(* A line without a value that opens no section: a library, at its indent. *)
Header(line) ==
  IF libIndent >= 0 /\ line.ind = libIndent
    THEN curLib' = line.key /\ curNid' = 0 /\ inFunctions' = FALSE
    ELSE UNCHANGED << curLib, curNid, inFunctions >>

Section(line) ==
  /\ line.val = Empty
  /\ libIndent' = IF line.key = "libraries" THEN line.ind + 2 ELSE libIndent
  /\ CASE line.key = "libraries" -> UNCHANGED << curLib, curNid, inFunctions >>
       [] line.key = "functions" -> inFunctions' = TRUE /\ UNCHANGED << curLib, curNid >>
       [] OTHER                  -> Header(line)
  /\ UNCHANGED << funcs, libs >>

(* add_lib keeps the first name. *)
LibNid(line) ==
  /\ line.val # Empty /\ ~inFunctions /\ line.key = "nid" /\ curLib # NoName
  /\ curNid' = line.val
  /\ libs' = IF line.val # 0 /\ \A k \in 1 .. Len(libs) : libs[k].nid # line.val
               THEN Append(libs, [nid |-> line.val, name |-> curLib]) ELSE libs
  /\ UNCHANGED << curLib, inFunctions, libIndent, funcs >>

Value(line) ==
  /\ line.val # Empty /\ ~(~inFunctions /\ line.key = "nid" /\ curLib # NoName)
  /\ funcs' = IF inFunctions /\ curNid # 0 /\ line.val # 0
                THEN Append(funcs, [lib |-> curNid, nid |-> line.val, name |-> line.key])
                ELSE funcs
  /\ UNCHANGED << curLib, curNid, inFunctions, libIndent, libs >>

ReadLine ==
  /\ lines # << >>
  /\ Section(Head(lines)) \/ LibNid(Head(lines)) \/ Value(Head(lines))
  /\ lines' = Tail(lines)
  /\ UNCHANGED << dir, opened, modVars >>

(* The name of the first of these entries, or none. *)
FirstName(s, hits) ==
  IF hits = {} THEN NoName ELSE s[CHOOSE k \in hits : \A j \in hits : k <= j].name

nid_func_name(lib, nid) ==
  LET named == { k \in DOMAIN funcs : funcs[k].nid = nid }
      exact == { k \in named : funcs[k].lib = lib }
  IN  FirstName(funcs, IF exact # {} THEN exact ELSE named)

nid_lib_name(lib) == FirstName(libs, { k \in DOMAIN libs : libs[k].nid = lib })

(* emit.c: the C symbol of a stub; an unknown NID has one of its own. *)
hle_symbol(s) ==
  IF nid_func_name(s.lib, s.nid) # NoName THEN nid_func_name(s.lib, s.nid) ELSE s.nid

--------------------------------------------------------------------------------
Init ==
  /\ dir \in Directories /\ opened = 0 /\ lines = << >>
  /\ curLib = NoName /\ curNid = 0 /\ inFunctions = FALSE /\ libIndent = -1
  /\ funcs = << >> /\ libs = << >>
  /\ module \in Modules
  /\ phase = "header" /\ at = 0
  /\ imports = << >> /\ total = 0 /\ stubs = << >>

(* cmd_emit and cmd_funcs have what they need, or have given up. *)
Done ==
  /\ phase = "failed" \/ (phase = "parsed" /\ opened = Len(dir) /\ lines = << >>)
  /\ UNCHANGED vars

Next ==
  \/ ParseHeader \/ WalkImport \/ EndWalk \/ PairImport \/ SortStubs
  \/ OpenFile \/ ReadLine \/ Done

Spec == Init /\ [][Next]_vars

--------------------------------------------------------------------------------
(* What the tables say, read off what was put in. *)

(* Imports whose entry is within the table and the file, up to the limit;  *)
(* one that says it is shorter than an entry can be ends the table.        *)
Readable ==
  { k \in 1 .. Len(module.listed) :
      /\ k <= MaxImports
      /\ \A i \in 1 .. k : module.listed[i].size >= Short
      /\ EntryOffset(module.listed, k + 1) <= module.importEnd
      /\ EntryOffset(module.listed, k + 1) <= module.fileLen }

(* Of these, those whose tables are known and within segment and file.     *)
Whole ==
  { k \in Readable : LET n == TableOffset(module.listed, k + 1)
                     IN  /\ module.listed[k].lost = {}
                         /\ n <= module.segLen /\ n <= module.fileLen }

Pairs(k) ==
  LET im == module.listed[k]
  IN  { [addr |-> (im.addrs[j] \div 2) * 2, lib |-> im.lib, nid |-> im.nids[j]] :
          j \in 1 .. Len(im.nids) }

(* A lookup finds a stub exactly at the addresses the readable tables give *)
(* one, Thumb bit or not, and what it finds is a pair of the tables; and   *)
(* the count printed is that of all the imports walked.                    *)
StubsFound ==
  phase = "parsed" =>
    /\ Range(stubs) = UNION { Pairs(k) : k \in Whole }
    /\ total = FoldSet(LAMBDA k, n : Len(module.listed[k].nids) + n, 0, Readable)
    /\ \A a \in Addresses :
         IF \E s \in Range(stubs) : s.addr = (a \div 2) * 2
           THEN vm_find_stub(a) # 0 /\ stubs[vm_find_stub(a)].addr = (a \div 2) * 2
           ELSE vm_find_stub(a) = 0

(* The entries of a file that are functions of their library.              *)
Declared(f) ==
  UNION { UNION { { [lib |-> l.nid, nid |-> e.nid, name |-> e.name] : e \in Range(l.funcs) } :
                    l \in { x \in Range(m.libs) : x.nid # 0 } } : m \in Range(f) }

(* The NIDs a file has for other things than functions.                   *)
Strange(f) ==
  { m.nid : m \in Range(f) }
  \cup UNION { UNION { { v.nid : v \in Range(l.vars) } : l \in Range(m.libs) } : m \in Range(f) }

LibsOf(f) ==
  { l \in UNION { Range(m.libs) : m \in Range(f) } : l.nid # 0 }

Names(entries, s) == { e.name : e \in { x \in entries : x.lib = s.lib /\ x.nid = s.nid } }
AnyNames(entries, s) == { e.name : e \in { x \in entries : x.nid = s.nid } }

DirectoryRead == phase = "parsed" /\ opened = Len(dir) /\ lines = << >>

(* The database holds each function of each library once read, under that  *)
(* library, and no other but for a NID that is also a module's or a        *)
(* variable's.  A callee with any other NID gets a name declared for it in *)
(* its library, or else one declared in any, or else its NID.  A library   *)
(* gets a name declared for it, unless its NID is also a module's.         *)
ImportsNamed ==
  DirectoryRead =>
    LET declared == UNION { Declared(f) : f \in Range(dir) }
        strange  == UNION { Strange(f) : f \in Range(dir) }
        all      == UNION { LibsOf(f) : f \in Range(dir) }
        modules  == UNION { { m.nid : m \in Range(f) } : f \in Range(dir) }
    IN  /\ declared \subseteq Range(funcs)
        /\ \A e \in Range(funcs) : e.nid \notin strange => e \in declared
        /\ \A s \in { x \in Range(stubs) : x.nid \notin strange } :
             CASE Names(declared, s) # {} -> hle_symbol(s) \in Names(declared, s)
               [] Names(declared, s) = {} /\ AnyNames(declared, s) # {} ->
                    hle_symbol(s) \in AnyNames(declared, s)
               [] AnyNames(declared, s) = {} -> hle_symbol(s) = s.nid
        /\ \A l \in { x \in all : x.nid \notin modules } :
             nid_lib_name(l.nid) \in { x.name : x \in { y \in all : y.nid = l.nid } }

(* A file that is not of the shape the reader looks for yields nothing     *)
(* rather than nonsense (nids.c:15): what is in the database are the       *)
(* functions and the libraries of the files.                               *)
NothingInvented ==
  DirectoryRead =>
    /\ Range(funcs) \subseteq UNION { Declared(f) : f \in Range(dir) }
    /\ \A e \in Range(libs) :
         \E l \in UNION { LibsOf(f) : f \in Range(dir) } : e = [nid |-> l.nid, name |-> l.name]
================================================================================
