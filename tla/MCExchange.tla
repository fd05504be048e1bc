----------------------------- MODULE MCExchange -----------------------------
(* The codes of the specifications, those the error tables name, and two   *)
(* (418, 502) that no operation and no sentinel knows.  303 and 308 are    *)
(* treated like 302 and 307.                                               *)
EXTENDS Exchange

MCStatusCodes ==
  {200, 201, 204, 302, 307, 400, 401, 403, 404, 409, 418, 422, 500, 502, 503}
=============================================================================
