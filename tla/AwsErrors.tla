----------------------------- MODULE AwsErrors -----------------------------
(***************************************************************************)
(* How crates/cloud-aws/src/error.rs turns what the AWS SDK reports into   *)
(* the error taxonomy of crates/cloud-types/src/errors.rs.                 *)
(*                                                                         *)
(* An SDK error is [variant, code, status]: the variant of SdkError and,   *)
(* for a ServiceError, the service's code and the HTTP status.             *)
(***************************************************************************)
EXTENDS Naturals

\* CloudError, without its texts.
NotFound == [type |-> "NotFound"]
AlreadyExists == [type |-> "AlreadyExists"]
ConditionFailed == [type |-> "ConditionFailed"]
RetentionViolation == [type |-> "RetentionViolation"]
Transport(retryable) == [type |-> "Transport", retryable |-> retryable]

is_retryable(error) == error.type = "Transport" /\ error.retryable

is_precondition_failure(error) == error.type \in {"AlreadyExists", "ConditionFailed"}

\* The variants of SdkError without an answer of the service.
SdkFailure(variant) == [variant |-> variant, code |-> "", status |-> 0]
ServiceError(code, status) == [variant |-> "ServiceError", code |-> code, status |-> status]

\* The request may have reached the service unless it was never built.
transport_error(err) == Transport(err.variant # "ConstructionFailure")

StatusRetryable(status) == status = 429 \/ status >= 500

generic_transport(err) ==
  Transport(\/ err.code \in {"SlowDown", "Throttling", "ThrottlingException", "RequestTimeout",
                             "InternalError", "ServiceUnavailable", "RequestTimeTooSkewed"}
            \/ StatusRetryable(err.status))

\* AccessDenied is read as a lock whatever the operation is.
classify_unscoped(op, err) ==
  CASE err.code \in {"NoSuchKey", "NoSuchVersion", "NotFound"} -> NotFound
    [] err.code \in {"PreconditionFailed", "ConditionalRequestConflict"} -> AlreadyExists
    [] err.code \in {"AccessDenied", "InvalidRequest", "InvalidArgument"} -> RetentionViolation
    [] OTHER -> generic_transport(err)

\* S3: the same code means different things for different operations.
classify(op, err) ==
  CASE err.code \in {"NoSuchKey", "NoSuchVersion", "NotFound"} -> NotFound
    [] op = "Read" /\ err.code \in {"NoSuchObjectLockConfiguration",
                                    "ObjectLockConfigurationNotFoundError"} -> NotFound
    [] op = "CreateOnlyWrite" /\ err.code \in {"PreconditionFailed",
                                               "ConditionalRequestConflict"} -> AlreadyExists
    [] op \in {"RetentionGuardedWrite", "RetentionExtend"}
       /\ err.code \in {"AccessDenied", "InvalidRequest", "InvalidArgument"} -> RetentionViolation
    [] OTHER -> generic_transport(err)

map_error(op, err) ==
  IF err.variant # "ServiceError" THEN transport_error(err) ELSE classify(op, err)

ddb_generic_transport(err) ==
  Transport(\/ err.code \in {"ProvisionedThroughputExceededException", "ThrottlingException",
                             "RequestLimitExceeded", "InternalServerError",
                             "LimitExceededException", "TransactionInProgressException"}
            \/ StatusRetryable(err.status))

ddb_transport_error(err) == transport_error(err)

ddb_generic_error(err) ==
  IF err.variant # "ServiceError" THEN ddb_transport_error(err) ELSE ddb_generic_transport(err)

map_put_item_error(err) ==
  IF err.code = "ConditionalCheckFailedException" THEN ConditionFailed ELSE ddb_generic_error(err)

\* A cancelled transaction is ConditionFailed when one of its reasons is;
\* cancelled for a conflict only, it is a terminal Transport.
map_transact_write_items_error(err, reasons) ==
  IF err.code = "TransactionCanceledException" /\ "ConditionalCheckFailed" \in reasons
  THEN ConditionFailed
  ELSE ddb_generic_error(err)
=============================================================================
