----------------------------- MODULE JSONSchemas -----------------------------
(***************************************************************************)
(* JSON schemas for the Gemini models that take only a part of the keywords *)
(* (internal/translator/jsonschema_helper.go): the references are replaced  *)
(* by what they refer to, then the keywords are converted.  What a schema   *)
(* accepts is the reference for both.                                       *)
(*                                                                         *)
(* A document is [kind |-> "object", at], [kind |-> "list", of],            *)
(* [kind |-> "string", is], null or true, or, the value of a "$ref",   *)
(* [kind |-> "path", path] with the components behind "#/"; a path that     *)
(* does not start so has none.                                              *)
(***************************************************************************)
EXTENDS Naturals, Sequences, FiniteSetsExt, TLC

CONSTANTS
  jsonSchemaMaxRecursionDepth,
  Instances  \* the documents that schemas are compared on

Object(at) == [kind |-> "object", at |-> at]
List(of) == [kind |-> "list", of |-> of]
String(s) == [kind |-> "string", is |-> s]
Null == [kind |-> "null"]
True == [kind |-> "true"]
Ref(path) == [kind |-> "path", path |-> path]

errInvalidJSONSchema == [ok |-> FALSE]
Ok(x) == [ok |-> TRUE, is |-> x]
AllOk(results) == \A k \in DOMAIN results : results[k].ok
Values(results) == [k \in DOMAIN results |-> results[k].is]

\* The first error, or what comes after it; and of several results the error, or all.
Then(result, Next(_)) == IF result.ok THEN Next(result.is) ELSE errInvalidJSONSchema
Whole(results) == IF AllOk(results) THEN Ok(Values(results)) ELSE errInvalidJSONSchema

Has(n, key) == n.kind = "object" /\ key \in DOMAIN n.at

(***************************************************************************)
(* References.                                                              *)
(***************************************************************************)

RECURSIVE jsonSchemaDeepCopyAnySafe(_, _)

jsonSchemaDeepCopyMapStringAnySafe(n, depth) ==
  /\ depth < jsonSchemaMaxRecursionDepth
  /\ \A k \in DOMAIN n.at : jsonSchemaDeepCopyAnySafe(n.at[k], depth + 1)

\* Whether a value is copied: only its depth can prevent it.
jsonSchemaDeepCopyAnySafe(n, depth) ==
  /\ depth < jsonSchemaMaxRecursionDepth
  /\ n.kind = "object" => jsonSchemaDeepCopyMapStringAnySafe(n, depth)
  /\ n.kind = "list" => \A i \in DOMAIN n.of : jsonSchemaDeepCopyAnySafe(n.of[i], depth + 1)

RECURSIVE jsonSchemaRetrieveRef(_, _)

jsonSchemaRetrieveRef(path, schema) ==
  CASE path = <<>> \/ ~Has(schema, Head(path)) -> errInvalidJSONSchema
    [] Len(path) > 1 -> jsonSchemaRetrieveRef(Tail(path), schema.at[Head(path)])
    [] OTHER -> IF jsonSchemaDeepCopyAnySafe(schema.at[Head(path)], 0) THEN Ok(schema.at[Head(path)])
                ELSE errInvalidJSONSchema

\* What a "$ref" refers to; it must not be referred to on the way there.
Referred(n, full, processed) ==
  IF n.kind # "path" THEN errInvalidJSONSchema
  ELSE IF n.path \in processed THEN errInvalidJSONSchema
  ELSE jsonSchemaRetrieveRef(n.path, full)

Nested(n) == n.kind \in {"object", "list"}

RECURSIVE jsonSchemaSkipKeys(_, _, _, _)

\* The top-level keys that references go into.
jsonSchemaSkipKeys(n, full, processed, depth) ==
  LET below(x) == jsonSchemaSkipKeys(x, full, processed, depth + 1)
      ofRef(x) ==
        Then(Referred(x, full, processed), LAMBDA ref :
          Then(jsonSchemaSkipKeys(ref, full, processed \cup {x.path}, depth + 1), LAMBDA nested :
            Ok({x.path[1]} \cup nested)))
      found == CASE n.kind = "object" -> [k \in DOMAIN n.at |-> CASE k = "$ref" -> ofRef(n.at[k])
                                                                   [] k # "$ref" /\ Nested(n.at[k]) -> below(n.at[k])
                                                                   [] OTHER -> Ok({})]
                 [] n.kind = "list" -> [i \in DOMAIN n.of |-> below(n.of[i])]
                 [] OTHER -> <<>>
  IN IF depth >= jsonSchemaMaxRecursionDepth THEN errInvalidJSONSchema
     ELSE Then(Whole(found), LAMBDA keys : Ok(UNION {keys[k] : k \in DOMAIN keys}))

RECURSIVE jsonSchemaDereferenceHelper(_, _, _, _, _)

\* A dictionary with a "$ref" becomes what it refers to.  The keys come in any order,
\* so what stands beside the "$ref" may be looked at or not: here it is.
jsonSchemaDereferenceHelper(n, full, skip, processed, depth) ==
  LET below(x) == jsonSchemaDereferenceHelper(x, full, skip, processed, depth + 1)
      ofRef(x) == Then(Referred(x, full, processed), LAMBDA ref :
                    jsonSchemaDereferenceHelper(ref, full, skip, processed \cup {x.path}, depth + 1))
      of(k) == CASE k \in skip -> Ok(n.at[k])
                 [] k \notin skip /\ k = "$ref" -> ofRef(n.at[k])
                 [] k \notin skip /\ k # "$ref" -> IF Nested(n.at[k]) THEN below(n.at[k]) ELSE Ok(n.at[k])
      out == CASE n.kind = "object" -> [k \in DOMAIN n.at |-> of(k)]
               [] n.kind = "list" -> [i \in DOMAIN n.of |-> below(n.of[i])]
               [] OTHER -> <<>>
      copied(values) ==
        CASE n.kind = "list" -> List(values)
          [] n.kind = "object" -> IF "$ref" \in DOMAIN n.at \ skip THEN values["$ref"] ELSE Object(values)
          [] OTHER -> n
  IN IF depth >= jsonSchemaMaxRecursionDepth THEN errInvalidJSONSchema
     ELSE Then(Whole(out), LAMBDA values : Ok(copied(values)))

jsonSchemaDereference(schema) ==
  Then(jsonSchemaSkipKeys(schema, schema, {}, 0), LAMBDA skip :
    jsonSchemaDereferenceHelper(schema, schema, skip, {}, 0))

(***************************************************************************)
(* Keywords.                                                                *)
(***************************************************************************)

\* Those of genai.Schema that are copied.
allowedSchemaFieldsSet == {"description", "enum", "format", "nullable", "required"}

processJSONSchemaTypeField(n) ==
  LET types == {n.of[i] : i \in DOMAIN n.of}
      proper == types \ {String("null")}
  IN CASE n.kind = "string" -> Ok([type |-> n])
       [] n.kind = "list" -> IF Len(n.of) = 2 /\ String("null") \in types /\ proper # {} /\ ~\E t \in proper : t.kind = "object"
                             THEN Ok([type |-> CHOOSE t \in proper : TRUE, nullable |-> True])
                             ELSE errInvalidJSONSchema
       [] OTHER -> errInvalidJSONSchema

RECURSIVE jsonSchemaToGapic(_, _)

processJSONSchemaAllOfField(n, first) ==
  IF n.kind # "list" THEN errInvalidJSONSchema
  ELSE IF Len(n.of) # 1 THEN errInvalidJSONSchema
  ELSE jsonSchemaToGapic(n.of[1], first)

processJSONSchemaAnyOfFieldWithoutNull(n, first) ==
  LET kept == SelectSeq(n.of, LAMBDA s : ~(Has(s, "type") /\ s.at["type"] = String("null")))
      converted == [i \in DOMAIN kept |-> jsonSchemaToGapic(kept[i], first)]
  IN IF n.kind # "list" THEN errInvalidJSONSchema
     ELSE Then(Whole(converted), LAMBDA of : Ok([anyOf |-> List(of)]))

processJSONSchemaAnyOfField(n, first) ==
  LET null(s) == Has(s, "type") /\ s.at["type"] = String("null")
      kept == SelectSeq(n.of, LAMBDA s : ~null(s))
      converted == [i \in DOMAIN kept |-> jsonSchemaToGapic(kept[i], first)]
      nullable == \E i \in DOMAIN n.of : null(n.of[i])
  IN IF n.kind # "list" THEN errInvalidJSONSchema
     ELSE IF n.of = <<>> THEN errInvalidJSONSchema
     ELSE Then(Whole(converted), LAMBDA of :
            Ok([anyOf |-> List(of)] @@ (IF nullable THEN [nullable |-> True] ELSE <<>>)))

\* A dictionary with an "allOf" becomes its only schema.  The keys come in any order:
\* first says that the "allOf" comes before what stands beside it, which otherwise is
\* looked at and may be refused.
jsonSchemaToGapic(n, first) ==
  LET properties(p) == [k \in DOMAIN p.at |-> jsonSchemaToGapic(p.at[k], first)]
      of(k, v) ==
        CASE k = "items" -> Then(jsonSchemaToGapic(v, first), LAMBDA items : Ok([items |-> items]))
          [] k = "properties" -> IF v.kind # "object" THEN errInvalidJSONSchema
                                 ELSE Then(Whole(properties(v)), LAMBDA all : Ok([properties |-> Object(all)]))
          [] k = "type" -> processJSONSchemaTypeField(v)
          [] k = "allOf" -> processJSONSchemaAllOfField(v, first)
          [] k = "anyOf" -> processJSONSchemaAnyOfField(v, first)
          [] OTHER -> Ok(IF k \in allowedSchemaFieldsSet THEN k :> v ELSE <<>>)
      converted == [k \in DOMAIN n.at |-> of(k, n.at[k])]
  IN IF n.kind # "object" THEN errInvalidJSONSchema
     ELSE IF Has(n, "allOf") /\ first THEN converted["allOf"]
     ELSE Then(Whole(converted), LAMBDA all :
            Ok(IF Has(n, "allOf") THEN all["allOf"]
               ELSE Object(FoldSet(LAMBDA a, b : a @@ b, <<>>, {all[k] : k \in DOMAIN all}))))

RECURSIVE jsonSchemaMapToSchema(_)

\* Into the fields of genai.Schema: they are lists of strings, where null reads as "".
jsonSchemaMapToSchema(n) ==
  LET text(x) == IF x.kind = "null" THEN Ok(String("")) ELSE IF x.kind = "string" THEN Ok(x) ELSE errInvalidJSONSchema
      texts(of) == [i \in DOMAIN of |-> text(of[i])]
      schemas(of) == [k \in DOMAIN of |-> jsonSchemaMapToSchema(of[k])]
      whole(results, v) == Then(Whole(results), LAMBDA all : Ok(IF v.kind = "list" THEN List(all) ELSE Object(all)))
      of(k, v) == CASE k \in {"enum", "required"} -> IF v.kind = "list" THEN whole(texts(v.of), v) ELSE errInvalidJSONSchema
                    [] k = "items" -> jsonSchemaMapToSchema(v)
                    [] k = "properties" -> whole(schemas(v.at), v)
                    [] k = "anyOf" -> whole(schemas(v.of), v)
                    [] OTHER -> Ok(v)
      fields == [k \in DOMAIN n.at |-> of(k, n.at[k])]
  IN Then(Whole(fields), LAMBDA all : Ok(Object(all)))

jsonSchemaToGemini(schema, first) ==
  Then(jsonSchemaDereference(schema), LAMBDA deref :
    Then(jsonSchemaToGapic(deref, first), LAMBDA gapic : jsonSchemaMapToSchema(gapic)))

(***************************************************************************)
(* What a schema accepts, by the definition of JSON Schema; nullable is the *)
(* keyword of genai.Schema, which leaves out a list that is empty.          *)
(***************************************************************************)

TypeOf(v) == IF v.kind = "list" THEN "array" ELSE v.kind
Elements(n) == {n.of[i] : i \in DOMAIN n.of}

RECURSIVE Accepts(_, _, _)

Accepts(full, n, v) ==
  LET holds(k, x) ==
        CASE k = "type" -> String(TypeOf(v)) \in (IF x.kind = "list" THEN Elements(x) ELSE {x})
          [] k = "enum" -> v \in Elements(x)
          [] k = "const" -> v = x
          [] k = "properties" ->
               v.kind = "object" => \A p \in DOMAIN x.at \cap DOMAIN v.at : Accepts(full, x.at[p], v.at[p])
          [] k = "required" -> v.kind = "object" => \A p \in Elements(x) : p.is \in DOMAIN v.at
          [] k = "items" -> v.kind = "list" => \A e \in Elements(v) : Accepts(full, x, e)
          [] k = "anyOf" -> x.of = <<>> \/ \E s \in Elements(x) : Accepts(full, s, v)
          [] k = "allOf" -> \A s \in Elements(x) : Accepts(full, s, v)
          [] k = "oneOf" -> \E i \in DOMAIN x.of : {i} = {j \in DOMAIN x.of : Accepts(full, x.of[j], v)}
          [] k = "$ref" -> Accepts(full, jsonSchemaRetrieveRef(x.path, full).is, v)
          [] OTHER -> TRUE
  IN \/ Has(n, "nullable") /\ v = Null
     \/ \A k \in DOMAIN n.at : holds(k, n.at[k])

Accepted(schema) == {v \in Instances : Accepts(schema, schema, v)}

RECURSIVE Supported(_)

\* Schemas of the keywords that Gemini has too.  References go into $defs and stand
\* alone, so does an allOf, of one schema; null is allowed by a type or an alternative.
Supported(n) ==
  LET keys == DOMAIN n.at
      alone(k) == keys \ {"$defs", "description"} = {k}
      nullable == Has(n, "type") /\ n.at["type"].kind = "list"
  IN /\ keys \subseteq {"$defs", "$ref", "allOf", "anyOf", "description", "enum", "items", "properties", "required", "type"}
     /\ "$ref" \in keys => alone("$ref") /\ n.at["$ref"].path[1] = "$defs"
     /\ "allOf" \in keys => alone("allOf") /\ Len(n.at["allOf"].of) = 1 /\ Supported(n.at["allOf"].of[1])
     /\ "anyOf" \in keys => alone("anyOf") /\ (\A s \in Elements(n.at["anyOf"]) : Supported(s))
                            /\ \E s \in Elements(n.at["anyOf"]) : ~(Has(s, "type") /\ s.at["type"] = String("null"))
     /\ nullable => Len(n.at["type"].of) = 2 /\ String("null") \in Elements(n.at["type"])
     /\ "enum" \in keys => (Null \in Elements(n.at["enum"]) <=> nullable)
     /\ "items" \in keys => Supported(n.at["items"])
     /\ \A k \in keys \cap {"properties", "$defs"} :
          /\ DOMAIN n.at[k].at \cap {"$defs", "$ref"} = {}
          /\ \A p \in DOMAIN n.at[k].at : Supported(n.at[k].at[p])

RECURSIVE EnumeratesNull(_)

\* Null is a value of an enumeration without a nullable type.
EnumeratesNull(n) ==
  LET nullable == Has(n, "type") /\ n.at["type"].kind = "list"
      below == IF n.kind = "object" THEN {n.at[k] : k \in DOMAIN n.at} ELSE IF n.kind = "list" THEN Elements(n) ELSE {}
  IN \/ Has(n, "enum") /\ Null \in Elements(n.at["enum"]) /\ ~nullable
     \/ \E x \in below : EnumeratesNull(x)

RECURSIVE Depth(_)

Depth(n) ==
  CASE n.kind = "object" -> 1 + Max({0} \cup {Depth(n.at[k]) : k \in DOMAIN n.at})
    [] n.kind = "list" -> 1 + Max({0} \cup {Depth(e) : e \in Elements(n)})
    [] OTHER -> 0

\* A schema that Gemini is given accepts all the client's schema accepts, and just
\* that when it is written with the keywords Gemini has, in whatever order Go runs
\* through the keys.  Where the search for references finds nothing wrong they are
\* replaced, and what is left is no deeper than the limit, which the conversion does
\* not check (jsonschema_helper.go, jsonSchemaToGemini: "combines dereferencing and
\* GCP formatting with proper error handling").
KeepsItsMeaning(schema) ==
  \E deref \in {jsonSchemaDereference(schema)}, found \in {jsonSchemaSkipKeys(schema, schema, {}, 0).ok} :
    /\ deref.ok = found
    /\ deref.ok => Depth(deref.is) <= jsonSchemaMaxRecursionDepth
    /\ \A first \in BOOLEAN : \E converted \in {jsonSchemaToGemini(schema, first)} :
         /\ converted.ok /\ ~EnumeratesNull(schema) => Accepted(schema) \subseteq Accepted(converted.is)
         /\ found /\ Supported(schema) => converted.ok /\ Accepted(schema) = Accepted(converted.is)
=============================================================================
