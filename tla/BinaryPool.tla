----------------------------- MODULE BinaryPool -----------------------------
(***************************************************************************)
(* src/src/binary_pool.h: Get() cuts a piece of random length from a pool  *)
(* of random bytes, from a random position on and round its end.           *)
(*                                                                         *)
(* The bytes themselves are left out: a byte is its index in bin_.         *)
(***************************************************************************)
EXTENDS Integers, Sequences

CONSTANTS
  PoolSize,  \* size_, which the constructor rounds up to whole words
  LeastSize, MostSize  \* min_size and max_size of the calls of PoolSpec

ASSUME PoolAssumption == PoolSize \in Nat \ {0}
ASSUME SizesAssumption == LeastSize \in Nat /\ MostSize \in Nat

VARIABLES
  getting,  \* is a call under way?
  size,     \* bytes still to be copied
  pos,      \* pos
  r,        \* the bytes copied so far
  asked,    \* size, as it was drawn
  from      \* pos, as it was drawn

poolVars == <<getting, size, pos, r, asked, from>>

PoolInit ==
  /\ getting = FALSE
  /\ size = 0 /\ pos = 0 /\ asked = 0 /\ from = 0
  /\ r = << >>

\* Get(min_size, max_size): both draws are uniform, the second from the whole pool.
Get(min, max) ==
  /\ ~getting
  /\ getting' = TRUE
  /\ \E s \in min .. max, p \in 0 .. PoolSize - 1 :
       /\ size' = s /\ asked' = s
       /\ pos' = p /\ from' = p
  /\ r' = << >>

\* Mutant: the end of the pool does not end a piece.
WholeRest(start) == size

\* Up to the end of the pool, or up to what is still to be copied.
PieceFrom(start) == IF size < PoolSize - start THEN size ELSE PoolSize - start

\* A turn of the loop.
Copies ==
  /\ getting /\ size > 0
  /\ LET start == pos % PoolSize
         n == PieceFrom(start)
     IN  /\ r' = r \o [k \in 1 .. n |-> start + k - 1]
         /\ pos' = pos + n
         /\ size' = size - n
  /\ UNCHANGED <<getting, asked, from>>

Returns ==
  /\ getting /\ size = 0
  /\ getting' = FALSE
  /\ UNCHANGED <<size, pos, r, asked, from>>

PoolNext == Get(LeastSize, MostSize) \/ Copies \/ Returns

PoolSpec == PoolInit /\ [][PoolNext]_poolVars

-----------------------------------------------------------------------------
\* The comment at 33: "pos から pos + size (size_ を超えると 0 からループ) までのバイナリを返す",
\* the bytes from pos to pos + size, from 0 again past size_.
GetReturnsCut ==
  getting /\ size = 0 => r = [k \in 1 .. asked |-> (from + k - 1) % PoolSize]
=============================================================================
