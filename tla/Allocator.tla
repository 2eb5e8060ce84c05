------------------------------ MODULE Allocator ------------------------------
(***************************************************************************)
(* What the dynamic memory of a compiled program promises its clients      *)
(* (strings, local arrays, the allocate/deallocate functions), without     *)
(* saying how: a region of bytes Lo .. Hi-1 from which extents are handed   *)
(* out and taken back.  Heap.tla, the linked free list of the runtime      *)
(* library, is shown to implement it.                                      *)
(*                                                                         *)
(* An extent <<s, l>> is the bytes s .. s+l-1; its first Overhead bytes     *)
(* hold the length of the block and the client's pointer is s + Overhead.  *)
(***************************************************************************)
EXTENDS Integers

CONSTANTS Lo, Hi,      \* the managed bytes are Lo .. Hi - 1
          Overhead,    \* bytes of a block the client does not see
          Requests     \* the lengths clients ask for

Null == 0
NoRequest == -1

VARIABLES owned,       \* the extents clients hold
          asked,       \* the length being asked for, or NoRequest
          ret          \* the pointer the last request returned, or Null

vars == <<owned, asked, ret>>

Bytes(e) == e[1] .. (e[1] + e[2] - 1)

Disjoint(e, f) == e[1] + e[2] <= f[1] \/ f[1] + f[2] <= e[1]

InRegion(e) == Lo <= e[1] /\ e[1] + e[2] <= Hi

\* An extent no client holds a byte of.
Vacant(e) == InRegion(e) /\ \A f \in owned : Disjoint(e, f)

-----------------------------------------------------------------------------
Init == owned = {} /\ asked = NoRequest /\ ret = Null

\* A client asks for n bytes.
Ask(n) ==
    /\ asked = NoRequest
    /\ asked' = n
    /\ ret' = Null
    /\ UNCHANGED owned

\* The request is met with a vacant extent at least as long as it needs.
Grant ==
    /\ asked # NoRequest
    /\ \E s \in Lo .. Hi, l \in 1 .. (Hi - Lo) :
          /\ l >= asked + Overhead
          /\ Vacant(<<s, l>>)
          /\ owned' = owned \union {<<s, l>>}
          /\ ret' = s + Overhead
    /\ asked' = NoRequest

\* The request is refused, and only because no vacant extent is long enough:
\* memory is never lost and never left split between adjacent vacant extents.
Refuse ==
    /\ asked # NoRequest
    /\ \A s \in Lo .. Hi : ~ Vacant(<<s, asked + Overhead>>)
    /\ asked' = NoRequest
    /\ ret' = Null
    /\ UNCHANGED owned

\* A client gives an extent back.
Release(e) ==
    /\ asked = NoRequest
    /\ e \in owned
    /\ owned' = owned \ {e}
    /\ ret' = Null
    /\ UNCHANGED asked

\* A client gives an extent back and asks for another one in a single call.
Exchange(e, n) ==
    /\ asked = NoRequest
    /\ e \in owned
    /\ owned' = owned \ {e}
    /\ asked' = n
    /\ ret' = Null

Next ==
    \/ \E n \in Requests : Ask(n)
    \/ Grant
    \/ Refuse
    \/ \E e \in owned : Release(e) \/ \E n \in Requests : Exchange(e, n)

Spec == Init /\ [][Next]_vars
=============================================================================
