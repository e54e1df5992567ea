-------------------------- MODULE MCPostgresQuery --------------------------
(***************************************************************************)
(* Six byte values: field counts below 36, lengths below 1296 and negative *)
(* from 648 on.  All payloads of up to five bytes from NUL and two others, *)
(* and all rows of up to three columns from a small pool.                  *)
(*                                                                         *)
(* In a column, 2 and 3 stand for one UUID in upper and in lower case, 4   *)
(* and 5 for another in lower and in upper case, 1 for a word such as      *)
(* "password" and 0 for a separator.  UUIDs written together are also one  *)
(* opaque run.                                                             *)
(***************************************************************************)
EXTENDS ResultTokens

UpTo(k, S) == UNION {[1 .. m -> S] : m \in 0 .. k}

MCTexts == UpTo(5, {0, 1, 2})
MCRows == UpTo(3, {Null, <<>>, <<3>>, <<0, 2>>, <<1>>, <<4, 3>>})
MCBodies == {<<>>, << <<>> >>, << <<2>>, <<4>> >>, << <<5, 2>>, <<3>> >>, << <<4>>, <<1>> >>,
             << <<0, 4, 3>> >>, << <<5, 0, 3>>, <<2, 3>> >>}

Uuids == {2, 3, 4, 5}
Run(v, k) == SubSeq(v, k, Max({e \in k .. Len(v) : \A j \in k .. e : v[j] \in Uuids}))
MCFind(class, v) ==
  CASE class = "uuid" -> [k \in 1 .. Len(SelectSeq(v, LAMBDA b : b \in Uuids)) |->
                            <<SelectSeq(v, LAMBDA b : b \in Uuids)[k]>>]
    [] class = "opaque" ->
         LET starts == {k \in DOMAIN v : v[k] \in Uuids /\ (k = 1 \/ v[k - 1] \notin Uuids)}
             order == SetToSortSeq(starts, <)
         IN  [k \in DOMAIN order |-> Run(v, order[k])]
    [] OTHER -> <<>>
MCToLower(v) == [k \in DOMAIN v |-> CASE v[k] = 2 -> 3 [] v[k] = 5 -> 4 [] OTHER -> v[k]]
MCCredBlock(v) == \E k \in DOMAIN v : v[k] = 1
=============================================================================
