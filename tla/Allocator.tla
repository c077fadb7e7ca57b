------------------------------- MODULE Allocator -------------------------------
(***************************************************************************)
(* What the guest program is promised by malloc, realloc, free and errno:  *)
(* a collection of separate objects.  Storing into one object changes that *)
(* object and nothing else, growing or shrinking one keeps the bytes both  *)
(* sizes have, and errno is a cell of its own.  Addresses do not appear:   *)
(* an object is known by its handle only.  GuestHeap implements this.      *)
(***************************************************************************)
EXTENDS Integers

CONSTANTS
  Handles,   (* names of objects                                           *)
  Values     (* the contents of one byte                                   *)

VARIABLES
  objects,   (* live handle -> contents, a function on 0 .. size-1         *)
  errno      (* contents of the errno cell; no bytes before it exists      *)

abstract == << objects, errno >>

Init ==
  /\ objects = [h \in {} |-> {}]
  /\ errno   = [i \in {} |-> {}]

(* The objects of S, each with the contents it had. *)
Keep(S) == \A h \in S : objects'[h] = objects[h]

(* The errno cell comes into existence, with any contents. *)
Open ==
  /\ DOMAIN errno = {}
  /\ UNCHANGED objects

(* A new object; nothing is said of its first contents. *)
Alloc ==
  \E h \in Handles \ DOMAIN objects :
    /\ DOMAIN objects' = DOMAIN objects \cup {h}
    /\ Keep(DOMAIN objects)
    /\ UNCHANGED errno

(* An object moves to a new handle and size and keeps its common prefix. *)
Resize ==
  \E g \in DOMAIN objects, h \in Handles \ DOMAIN objects :
    /\ DOMAIN objects' = (DOMAIN objects \ {g}) \cup {h}
    /\ Keep(DOMAIN objects \ {g})
    /\ \A i \in DOMAIN objects[g] \cap DOMAIN objects'[h] :
         objects'[h][i] = objects[g][i]
    /\ UNCHANGED errno

Release ==
  \E g \in DOMAIN objects :
    /\ DOMAIN objects' = DOMAIN objects \ {g}
    /\ Keep(DOMAIN objects \ {g})
    /\ UNCHANGED errno

(* The program stores one byte of an object. *)
Put ==
  \E g \in DOMAIN objects, v \in Values :
    \E i \in DOMAIN objects[g] :
      /\ objects' = [objects EXCEPT ![g] = [@ EXCEPT ![i] = v]]
      /\ UNCHANGED errno

(* The program stores through errno. *)
PutErrno ==
  \E v \in Values :
    /\ errno' = [i \in DOMAIN errno |-> v]
    /\ UNCHANGED objects

Next == Open \/ Alloc \/ Resize \/ Release \/ Put \/ PutErrno

Spec == Init /\ [][Next]_abstract
================================================================================
