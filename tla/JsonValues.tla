----------------------------- MODULE JsonValues -----------------------------
(***************************************************************************)
(* JSON values, all of one form, and the functions of keywords that        *)
(* schemas are (src/schema/walk.ts, src/resolve/layer.ts).                 *)
(*                                                                         *)
(* A string is a word and its length.  A callback among the layers of a    *)
(* body is [kind |-> "call"] with its settled answer as the only item, or  *)
(* with none when it throws or rejects.                                    *)
(***************************************************************************)
EXTENDS Integers, Sequences

Empty == [key \in {} |-> key]
JNull == [kind |-> "null", word |-> "", num |-> 0, items |-> <<>>, members |-> Empty]
Undefined == [JNull EXCEPT !.kind = "undefined"]
JString(word, length) == [JNull EXCEPT !.kind = "string", !.word = word, !.num = length]
JNumber(n) == [JNull EXCEPT !.kind = "number", !.num = n]
JBoolean(b) == [JNull EXCEPT !.kind = "boolean", !.num = IF b THEN 1 ELSE 0]
JArray(items) == [JNull EXCEPT !.kind = "array", !.items = items]
JObject(members) == [JNull EXCEPT !.kind = "object", !.members = members]

Has(schema, key) == key \in DOMAIN schema
Get(schema, key, default) == IF Has(schema, key) THEN schema[key] ELSE default
Maybe(schema, key) == IF Has(schema, key) THEN <<schema[key]>> ELSE <<>>
Without(schema, keys) == [key \in DOMAIN schema \ keys |-> schema[key]]

Bytes == [JNull EXCEPT !.kind = "bytes"]
Call(answer) == [JArray(<<answer>>) EXCEPT !.kind = "call"]
Throwing == [JNull EXCEPT !.kind = "call"]
=============================================================================
