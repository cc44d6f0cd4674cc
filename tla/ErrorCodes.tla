----------------------------- MODULE ErrorCodes -----------------------------
(***************************************************************************)
(* How an error of a handler is seen on its way to the caller: by          *)
(* xerr.GRPCStatus, by the Sentinel interceptor, by ErrorUnary and by the  *)
(* client's circuit breaker.  An error is a record of its Go type, its     *)
(* code, and the gRPC code that status.FromError finds in its cause.       *)
(***************************************************************************)

\* What asGRPCCode takes over: a codes.Code, or the int 0..16 with its number.
\* Both are written by name; every other code is a business number.
Codes == {"OK", "Canceled", "Unknown", "InvalidArgument", "DeadlineExceeded", "NotFound",
          "AlreadyExists", "PermissionDenied", "ResourceExhausted", "FailedPrecondition",
          "Aborted", "OutOfRange", "Internal", "Unavailable", "DataLoss", "Unauthenticated"}

None      == [type |-> "none", code |-> "OK", cause |-> "none"]
Plain     == [type |-> "plain", code |-> "none", cause |-> "none"]     \* any other error
Status(c) == [type |-> "status", code |-> c, cause |-> "none"]         \* status.Error
Xerr(c)   == [type |-> "xerr", code |-> c, cause |-> "none"]           \* xerr.New

\* xerr.GRPCStatus: a gRPC code is taken over, else the code of the cause.
GRPCStatus(e) ==
  CASE e.type = "xerr" /\ e.code \notin Codes /\ e.cause # "none" -> e.cause
    [] e.type = "xerr" /\ e.code \notin Codes /\ e.cause = "none" -> "Internal"
    [] OTHER                                                      -> e.code

\* status.FromError recognises status errors and, by GRPCStatus, xerr errors.
FromErrorOk(e) == e.type \in {"none", "status", "xerr"}

\* xerr.Wrap of an error.
Wrap(e, c) ==
  [type |-> "xerr", code |-> c,
   cause |-> IF e # None /\ FromErrorOk(e) THEN GRPCStatus(e) ELSE "none"]

\* isSystemError: what the Sentinel interceptor reports to its breaker.
isSystemError(e) ==
  /\ e # None
  /\ \/ ~FromErrorOk(e)
     \/ GRPCStatus(e) \in {"Internal", "Unavailable", "DeadlineExceeded",
                           "ResourceExhausted", "DataLoss", "Unknown"}

mapBizToGrpc(c) ==
  CASE c = "1001001" -> "InvalidArgument"
    [] c = "1002001" -> "Unauthenticated"
    [] c = "1002003" -> "PermissionDenied"
    [] OTHER         -> "Unknown"

\* RecoverUnary around ErrorUnary: what leaves the server.
ErrorUnary(e) ==
  CASE e = None                                               -> None
    [] FromErrorOk(e) /\ GRPCStatus(e) = "ResourceExhausted"  -> Status("ResourceExhausted")
    [] e.type = "xerr" /\ GRPCStatus(e) # "ResourceExhausted" -> Status(mapBizToGrpc(e.code))
    [] OTHER                                                  -> Status("Internal")

\* isSuccessfulForBreaker: what does not count against the server.
Expected == {"InvalidArgument", "NotFound", "PermissionDenied", "Unauthenticated",
             "AlreadyExists", "FailedPrecondition", "OutOfRange", "Canceled"}
isSuccessfulForBreaker(e) ==
  e = None \/ (FromErrorOk(e) /\ GRPCStatus(e) \in Expected)
=============================================================================
