-------------------------- MODULE OperationTables --------------------------
(***************************************************************************)
(* The vocabulary of the tables of operations (AccountOperations,          *)
(* AdminOperations, AccountWire, AdminWire): the ways the code has of       *)
(* handling a response, and of giving the failure of an operation a         *)
(* message of its own, abstracted to the sentinel errors.Is finds in the    *)
(* error it makes; and what the generated clients send and decode.          *)
(***************************************************************************)
EXTENDS Naturals

(* Maps, as those of module TLC: of a single key, and the union of two, in  *)
(* which the first prevails.                                                *)
key :> value == [k \in {key} |-> value]

f @@ g ==
  [k \in DOMAIN f \cup DOMAIN g |-> IF k \in DOMAIN f THEN f[k] ELSE g[k]]

Plain == "no sentinel"   \* PlainError: errors.Is finds nothing in it

\* How the error is made: from the operation's table ("table": HandleResponse),
\* from the table after a look for a 401 ("validated": ValidateJSON200 and
\* ValidateJSON201), or by the operation itself ("none").  Then the codes that
\* are a success, and what the operation needs from the response: nothing, the
\* raw body, or data that is tested for or is not.
Call(errors, codes, needs) == [errors |-> errors, codes |-> codes, needs |-> needs]

Status(codes) == Call("table", codes, "nothing")
Raw(codes)    == Call("table", codes, "body")
Data(codes)   == Call("table", codes, "data")
Unchecked     == Call("table", {200}, "untested data")
Validated     == Call("validated", {200}, "data")
Created       == Call("validated", {201}, "data")
Bare(needs)   == Call("none", {200}, needs)

Each(ops, x) == [op \in ops |-> x]

Auth    == 401 :> "ErrUnauthorized"
Bad     == 400 :> "ErrBadRequest"
Missing == 404 :> "ErrNotFound"
Denied  == 403 :> "ErrForbidden"

PlainAt(codes) == [code \in codes |-> Plain]

-----------------------------------------------------------------------------
(* The wire: a request, and the codes whose JSON body a generated Parse     *)
(* function decodes, beside the problems that it decodes for every          *)
(* operation, for those that the specification guards, or in meta.          *)

Request(method, path) == [method |-> method, path |-> path]

Get(path)    == Request("GET", path)
Post(path)   == Request("POST", path)
Put(path)    == Request("PUT", path)
Patch(path)  == Request("PATCH", path)
Delete(path) == Request("DELETE", path)

Common(codes)    == codes \cup {400, 404, 422, 500}
Protected(codes) == Common(codes) \cup {401, 403}
MetaCodes        == {200, 400, 401, 403, 404, 500}
=============================================================================
