---------------------------------- MODULE Trap ----------------------------------
(***************************************************************************)
(* src/src/trap.c: how the gaps of a recompiled program announce           *)
(* themselves.  A trap aborts the program, unless VITARECOMP_TRACE is set:  *)
(* then it writes one line per key, which it remembers in an open          *)
(* addressing table that never forgets, and returns.                       *)
(*                                                                         *)
(* The module has no next-state relation of its own: its operations are    *)
(* the steps of whoever meets a gap (Dispatch).                            *)
(***************************************************************************)
EXTENDS Integers, FiniteSets

CONSTANTS
  Slots,      (* SEEN_SLOTS                                                *)
  Keys,       (* what a trap may be keyed on: an address or a NID          *)
  Hash        (* first slot probed for a key                               *)

ASSUME SlotsAssumption == Slots \in Nat \ {0}
ASSUME KeysAssumption  == Keys \subseteq Nat /\ Hash \in [Keys -> 0 .. Slots - 1]

VARIABLES
  env,        (* VITARECOMP_TRACE asks for tracing                         *)
  g_trace,    (* -1 until the first trap looks at the environment          *)
  g_seen,     (* keys already reported, 0 in a free slot                   *)
  g_hits,     (* traps taken                                               *)
  aborted,
  trapped,    (* keys of all traps taken; not in the code                  *)
  reports     (* TRACE lines written for each key; not in the code         *)

trapVars == << env, g_trace, g_seen, g_hits, aborted, trapped, reports >>

TrapInit ==
  /\ env \in {0, 1}
  /\ g_trace = -1
  /\ g_seen = [s \in 0 .. Slots - 1 |-> 0]
  /\ g_hits = 0
  /\ aborted = FALSE
  /\ trapped = {}
  /\ reports = [k \in Keys |-> 0]

--------------------------------------------------------------------------------
(* The i-th slot first_time looks at. *)
Slot(key, i) == (Hash[key] + i) % Slots

(* Mutant of Ends: probing does not stop at the key itself. *)
EndsAtFree(key, i) == g_seen[Slot(key, i)] = 0

(* Probing ends at a slot that holds the key, or a free one. *)
Ends(key, i) == g_seen[Slot(key, i)] \in {key, 0}

Lands(key, i) == Ends(key, i) /\ \A j \in 0 .. i - 1 : ~Ends(key, j)

Reported(key) == reports' = [reports EXCEPT ![key] = @ + 1]

(* Mutant of Report: a full table drops the line. *)
ReportUnlessFull(key) ==
  \/ \E i \in 0 .. Slots - 1 :
       /\ Lands(key, i)
       /\ IF g_seen[Slot(key, i)] = key
            THEN UNCHANGED << g_seen, reports >>
            ELSE g_seen' = [g_seen EXCEPT ![Slot(key, i)] = key] /\ Reported(key)
  \/ /\ \A i \in 0 .. Slots - 1 : ~Ends(key, i)
     /\ UNCHANGED << g_seen, reports >>

(* first_time, and the line the caller writes when it returns 1: quiet when *)
(* the probe finds the key, remembered when it finds a free slot, reported *)
(* every time when the table is full.                                      *)
Report(key) ==
  \/ \E i \in 0 .. Slots - 1 :
       /\ Lands(key, i)
       /\ IF g_seen[Slot(key, i)] = key
            THEN UNCHANGED << g_seen, reports >>
            ELSE g_seen' = [g_seen EXCEPT ![Slot(key, i)] = key] /\ Reported(key)
  \/ /\ \A i \in 0 .. Slots - 1 : ~Ends(key, i)
     /\ Reported(key)
     /\ UNCHANGED g_seen

(* The body the three traps share; trace_on reads the environment once. *)
Trap(key) ==
  /\ g_hits' = g_hits + 1
  /\ g_trace' = IF g_trace = -1 THEN env ELSE g_trace
  /\ trapped' = trapped \cup {key}
  /\ IF g_trace' = 1
       THEN Report(key) /\ UNCHANGED aborted
       ELSE aborted' = TRUE /\ UNCHANGED << g_seen, reports >>
  /\ UNCHANGED env

(* An instruction or a host-side check at addr. *)
vita_trap_unimpl(addr) == Trap(addr)

(* A transfer at addr to an address that is no function. *)
vita_trap_indirect(addr) == Trap(addr)

(* The firmware function nid, behind the stub at addr. *)
vita_trap_import(addr, nid) == Trap(IF nid # 0 THEN nid ELSE addr)

--------------------------------------------------------------------------------
TrapTypeOK ==
  /\ env \in {0, 1} /\ g_trace \in {-1, 0, 1}
  /\ g_seen \in [0 .. Slots - 1 -> Keys \cup {0}]
  /\ g_hits \in Nat
  /\ aborted \in BOOLEAN
  /\ trapped \subseteq Keys
  /\ reports \in [Keys -> Nat]

Remembered == { g_seen[s] : s \in 0 .. Slots - 1 }

(* A loop does not bury the log: a key is written twice only when it found *)
(* no slot in a full table (the two comments in trap.c on g_seen).         *)
ReportedOnce ==
  \A k \in Keys : reports[k] > 1 => {0, k} \cap Remembered = {}

(* Under tracing every gap with a key other than 0 has its line in the log, *)
(* whatever keys hash to its slot and however full the table is.           *)
NoGapLost ==
  ~aborted => \A k \in trapped \ {0} : reports[k] > 0

(* trap.c:41: "Report each distinct key once.  Returns 1 the first time a  *)
(* key is seen": every key, 0 included.                                    *)
EveryKeyReported ==
  ~aborted => \A k \in trapped : reports[k] > 0
================================================================================
