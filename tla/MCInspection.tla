---------------------------- MODULE MCInspection ----------------------------
(***************************************************************************)
(* Small instance of Inspection.  SQL bytes have eight values, so an       *)
(* authentication response of three bytes needs a length with a prefix and *)
(* an int has 24 bits; MongoDB bytes have 64, enough for the type codes.   *)
(* Documents put an element of every type before and behind the database.  *)
(***************************************************************************)
EXTENDS Inspection

MCBit == [f \in {"db", "secure", "lenenc", "attrs", "ssl", "compress"} |->
            CASE f = "db" -> 3 [] f = "compress" -> 5 [] f = "ssl" -> 11 [] f = "secure" -> 7
              [] f = "lenenc" -> 8 [] f = "attrs" -> 10]

ClientFlags == [flags : SUBSET {"db", "secure", "lenenc", "attrs"}, user : {<<>>, <<6, 1>>},
             auth : {<<>>, <<5, 1>>, <<3, 1, 1>>, <<7, 7, 7, 7, 7>>}, database : {<<>>, <<2>>}]
            \cup [flags : {{"ssl", "secure"}, {"compress", "db", "lenenc"}}, user : {<<6>>},
                  auth : {<<1>>}, database : {<<2>>}]
            \cup [flags : {{"db", "lenenc"}}, user : {<<6>>}, auth : {[k \in 1 .. 9 |-> k % 3]}, database : {<<2>>}]
MCLogins == {[caps |-> MapThenSumSet(LAMBDA f : 2 ^ MCBit[f], l.flags)] @@ l : l \in ClientFlags}

Long(low, high) == <<6>> \o [k \in 1 .. 8 |-> IF k = 1 THEN low ELSE high]
MCOddLengths == {<<7>>, <<3>>, <<4, 2, 0>>, <<5, 1, 0, 4>>, Long(2, 0), Long(7, 7), Long(0, 7),
                 Long(1, 3), <<6, 7, 7, 7, 7, 7, 7, 7, 3>>, <<6, 0, 0, 0, 4, 0, 0, 0, 0>>}

MCSqlTexts == UNION {[1 .. n -> {1, 2, 3}] : n \in 1 .. 3}
MCWords == [p \in ToSet(MySQLBlocked \o MySQLAlerted \o PostgresBlocked \o PostgresAlerted) |->
              CASE p = "ddl-drop" -> {<<1>>} [] p = "sqli-stacked-queries" -> {<<2, 1>>}
                [] p = "recon-information-schema" -> {<<3>>} [] p = "recon-pg-shadow" -> {<<3, 3>>}
                [] OTHER -> {}]

Spelled == ("ok" :> <<40, 41>>) @@ ("errmsg" :> <<42, 43, 43, 44, 45, 46>>) @@ ("code" :> <<47, 40, 48, 42>>)
             @@ ("$where" :> <<33, 34>>) @@ ("$function" :> <<33, 35>>) @@ ("$accumulator" :> <<33, 36>>)
             @@ ("$db" :> <<33, 37>>) @@ ("delete" :> <<50>>) @@ ("update" :> <<51>>) @@ ("drop" :> <<52>>)
             @@ ("listDatabases" :> <<53>>)
Others == <<"dropDatabase", "createUser", "dropUser", "updateUser", "grantRolesToUser",
            "revokeRolesFromUser", "listCollections", "mapReduce">>
MCName == Spelled @@ [n \in ToSet(Others) |-> <<54, 50 + SelectInSeq(Others, LAMBDA x : x = n)>>]
Find == <<55>>

(* Elements: scalars, strings and documents.                               *)
E(key, type, val) == [key |-> key, type |-> type, val |-> val, text |-> Nothing, words |-> {key}, empty |-> FALSE]
S(key, t) == [E(key, 2, Mongo!PutLittle(Len(t) + 1, 4, 64) \o t \o <<0>>) EXCEPT !.text = t, !.words = {key, t}]
D(key, type, elems) ==
  [E(key, type, DocBytes(elems)) EXCEPT
     !.words = {key} \cup UNION {elems[k].words : k \in DOMAIN elems},
     !.empty = elems = <<>> \/ \E k \in DOMAIN elems : elems[k].empty]

K == <<38>>
Db == S(MCName["$db"], <<39>>)
Scalars == {E(K, t, [k \in 1 .. Mongo!FixedLen[t] |-> 1 + (k % 2)]) : t \in DOMAIN Mongo!FixedLen}
Middle == Scalars \cup {S(K, <<>>), S(K, MCName["$function"]), S(MCName["$db"], <<49>>),
            E(K, 5, <<2, 0, 0, 0, 0, 1, 1>>), E(K, 11, <<38, 0, 39, 0>>), E(K, 16, <<5, 0, 0, 0>>),
            D(K, 3, <<>>), D(K, 4, <<D(K, 3, <<D(K, 3, <<>>), E(K, 16, <<1, 0, 0, 0>>)>>)>>),
            D(K, 3, <<Db>>), D(K, 3, <<S(MCName["$where"], <<1>>)>>)}
First == {S(Find, <<38>>), E(MCName["drop"], 16, <<1, 0, 0, 0>>), S(MCName["delete"], <<38>>), S(MCName["createUser"], <<38>>),
          E(MCName["listDatabases"], 1, [k \in 1 .. 8 |-> 1])}

Elems == {<<>>, <<Db>>} \cup {<<f, m, Db>> : f \in First, m \in Middle} \cup {<<f, Db, m>> : f \in First, m \in Middle}
Msg(elems, op, seqs, to) ==
  [elems |-> elems, opCode |-> op, sequences |-> seqs, responseTo |-> to, collection |-> <<38, 38>>]
MCMessages == {Msg(e, "OpMsg", <<>>, 0) : e \in Elems} \cup {Msg(e, "OpQuery", <<>>, 0) : e \in Elems}
  \cup {Msg(<<m, Db>>, "OpMsg", s, 0) : m \in First, s \in {<< <<>> >>, << <<38, 0>> \o DocBytes(<<Db>>), <<38, 0>> >>}}
  \cup {Msg(<<Db>>, op, <<>>, to) : op \in {"OpMsg", "OpQuery", "OpReply"}, to \in {0, 1}}
MCErrorText == <<1, 2>>
=============================================================================
