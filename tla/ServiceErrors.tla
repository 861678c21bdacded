--------------------------- MODULE ServiceErrors ---------------------------
(***************************************************************************)
(* What a fault of the service becomes: the answer of the service is       *)
(* translated to an exception by the client of the API-key service         *)
(* (impl/backends/sunburst/client.py) or by the one of the AWS service     *)
(* (impl/backends/burst/errors.py), and a browser command of the CLI       *)
(* reports the exception with an error code and says whether a retry may   *)
(* help (cli/browser/utils/error_handlers.py).                             *)
(* Exceptions are the names of their classes; messages only matter where   *)
(* the CLI looks into them.                                                *)
(***************************************************************************)
EXTENDS Integers, Sequences

\* The class every exception class extends.
Parent ==
    [ NovaActError |-> "Exception", ActError |-> "NovaActError",
      StartFailed |-> "NovaActError", AuthError |-> "NovaActError",
      IAMAuthError |-> "NovaActError",
      ActTimeoutError |-> "ActError", ActAgentError |-> "ActError",
      ActInvalidModelGenerationError |-> "ActAgentError",
      ActAgentFailed |-> "ActAgentError",
      ActExceededMaxStepsError |-> "ActAgentError",
      ActExecutionError |-> "ActError",
      ActCanceledError |-> "ActExecutionError",
      ActActuationError |-> "ActExecutionError",
      ActToolError |-> "ActExecutionError",
      ActStateGuardrailError |-> "ActExecutionError",
      ActAPIError |-> "ActError", ActClientError |-> "ActAPIError",
      ActBadRequestError |-> "ActClientError",
      ActGuardrailsError |-> "ActClientError",
      ActRateLimitExceededError |-> "ActClientError",
      ActRequestThrottledError |-> "ActRateLimitExceededError",
      ActDailyQuotaExceededError |-> "ActRateLimitExceededError",
      ActServerError |-> "ActAPIError",
      ActBadResponseError |-> "ActServerError",
      ActInternalServerError |-> "ActServerError" ]

CliParent ==
    [ NovaActCLIError |-> "Exception", SessionError |-> "NovaActCLIError",
      SessionLockTimeout |-> "SessionError",
      SessionLimitReached |-> "SessionError",
      BrowserProcessDead |-> "SessionError" ]

\* Classes of Python and of the libraries that the commands meet.
LibraryParent ==
    [ Exception |-> "BaseException", KeyboardInterrupt |-> "BaseException",
      OSError |-> "Exception", ConnectionError |-> "OSError",
      TimeoutError |-> "OSError", PermissionError |-> "OSError",
      RequestsConnectionError |-> "OSError", BotoCoreError |-> "Exception",
      ValueError |-> "Exception", PlaywrightError |-> "Exception",
      RuntimeError |-> "Exception", ClickExit |-> "RuntimeError",
      ClickException |-> "Exception" ]

ParentOf(c) == IF c \in DOMAIN Parent THEN Parent[c]
               ELSE IF c \in DOMAIN CliParent THEN CliParent[c]
               ELSE LibraryParent[c]

Class == DOMAIN Parent \cup DOMAIN CliParent \cup DOMAIN LibraryParent

\* isinstance(e, c) for an exception e iff c \in Ancestors[e].
Ancestors[c \in Class \cup {"BaseException"}] ==
    IF c = "BaseException" THEN {c} ELSE {c} \cup Ancestors[ParentOf(c)]

-----------------------------------------------------------------------------
(* The API-key service: an HTTP answer.                                    *)

\* A fault no rule of the clients names is sorted by its status.
ByStatus(status) == CASE status \in 500..599 -> "ActServerError"
                      [] status \in 400..499 -> "ActClientError"
                      [] OTHER -> "ActAPIError"

InvalidJson(status) == CASE status < 400 -> "ActBadResponseError"
                         [] status \in 400..499 -> "ActBadRequestError"
                         [] OTHER -> "ActInternalServerError"

\* assert_json_response(): the exception for a body that is no JSON object.
InvalidBody(r) ==
    IF r.body = "text" THEN InvalidJson(r.status) ELSE "ActBadResponseError"

\* The exception for a status and a reason (a throttle type for 429), where
\* the reason decides.
ModelFaults == {"InvalidModelGeneration", "RequestTokenLimitExceeded"}

\* Knows the AWS service's name of a guardrail only.
ByReason_Guardrail(r) ==
    CASE r.status = 400 /\ r.reason = "GuardrailIntervened" -> "ActGuardrailsError"
      [] r.status = 500 /\ r.reason \in ModelFaults -> "ActInvalidModelGenerationError"
      [] OTHER -> "none"

ByReason(r) ==
    CASE r.status = 400 /\ r.reason = "AGENT_GUARDRAILS_TRIGGERED" -> "ActGuardrailsError"
      [] r.status = 429 /\ r.reason = "DAILY_QUOTA_LIMIT_EXCEEDED" -> "ActDailyQuotaExceededError"
      [] r.status = 429 /\ r.reason = "RATE_LIMIT_EXCEEDED" -> "ActRateLimitExceededError"
      [] r.status = 500 /\ r.reason \in ModelFaults -> "ActInvalidModelGenerationError"
      [] OTHER -> "none"

TranslateResponseError(r) ==
    IF r.body # "object" THEN InvalidBody(r)
    ELSE IF ByReason(r) # "none" THEN ByReason(r)
    ELSE IF r.status \in {400, 404} THEN "ActBadRequestError"
    ELSE IF r.status = 429 THEN "ActRequestThrottledError"
    ELSE IF r.status = 500 THEN "ActInternalServerError"
    ELSE ByStatus(r.status)

Creates == {"create_act", "create_session", "create_workflow_run"}
Calls == Creates \cup {"invoke_act_step", "update_act", "update_workflow_run"}

\* A call of the client: "none" when it returns.  The body of a success is
\* parsed and validated without a handler of its own.
SunburstCall(call, r) ==
    IF r.status # (IF call \in Creates THEN 201 ELSE 200) THEN TranslateResponseError(r)
    ELSE IF r.body # "object" THEN "ValueError" ELSE "none"

-----------------------------------------------------------------------------
(* The AWS service: a ClientError of boto.                                 *)

TranslateServiceError(e) ==
    CASE e.code = "AccessDeniedException" -> "AuthError"
      [] e.code = "ValidationException" /\ e.reason = "GuardrailIntervened" -> "ActGuardrailsError"
      [] e.code = "ValidationException" /\ e.reason # "GuardrailIntervened" -> "ActBadRequestError"
      [] e.code = "ResourceNotFoundException" -> "ActBadRequestError"
      [] e.code = "ThrottlingException" -> "ActRequestThrottledError"
      [] e.code = "ServiceQuotaExceededException" -> "ActDailyQuotaExceededError"
      [] e.code = "InternalServerException" /\ e.reason \in ModelFaults
             -> "ActInvalidModelGenerationError"
      [] e.code = "InternalServerException" /\ e.reason \notin ModelFaults
             -> "ActInternalServerError"
      [] OTHER -> ByStatus(e.status)

StarburstCall(e) == IF e.code = "none" THEN "none" ELSE TranslateServiceError(e)

-----------------------------------------------------------------------------
(* The command line: the handlers in the order they are tried.             *)

Handler(class, code, retryable) ==
    [class |-> class, code |-> code, retryable |-> retryable]

SessionHandlers ==
    << Handler("SessionLockTimeout", "SESSION_BUSY", TRUE),
       Handler("SessionLimitReached", "SESSION_LIMIT_REACHED", FALSE),
       Handler("BrowserProcessDead", "BROWSER_ERROR", FALSE),
       Handler("ConnectionError", "BROWSER_ERROR", TRUE),
       Handler("TimeoutError", "TIMEOUT_ERROR", TRUE),
       Handler("PermissionError", "FILE_ERROR", FALSE) >>

SdkErrorMap ==
    << Handler("IAMAuthError", "AUTH_ERROR", FALSE),
       Handler("AuthError", "AUTH_ERROR", FALSE),
       Handler("ActTimeoutError", "ACT_TIMEOUT_ERROR", TRUE),
       Handler("ActExceededMaxStepsError", "ACT_MAX_STEPS_ERROR", TRUE),
       Handler("ActGuardrailsError", "ACT_GUARDRAILS_ERROR", FALSE),
       Handler("ActRateLimitExceededError", "ACT_RATE_LIMIT_ERROR", TRUE) >>

\* The handlers that handle e, and the first one of them.
Handling(handlers, e) == {i \in DOMAIN handlers : handlers[i].class \in Ancestors[e]}
First(handlers, e) ==
    handlers[CHOOSE i \in Handling(handlers, e) : \A j \in Handling(handlers, e) : i <= j]

\* handle_common_errors(): how the exception e whose message mentions
\* `says` leaves the command; the exit code of a click.Exit is its own.
Report(e, says) ==
    LET handlers == SessionHandlers \o SdkErrorMap IN
    IF e = "ClickExit" THEN Handler(e, "its own", FALSE)
    ELSE IF e = "KeyboardInterrupt" THEN Handler(e, "INTERRUPTED", FALSE)
    ELSE IF Handling(handlers, e) # {} THEN First(handlers, e)
    ELSE IF says = "chrome not found" THEN Handler("Exception", "CHROME_NOT_FOUND", FALSE)
    ELSE IF "RuntimeError" \notin Ancestors[e] THEN Handler("Exception", "UNEXPECTED_ERROR", FALSE)
    ELSE Handler("RuntimeError",
                 IF says = "bad profile" THEN "VALIDATION_ERROR" ELSE "BROWSER_ERROR", FALSE)

-----------------------------------------------------------------------------
(* The faults of the services and the answers they send, read off the     *)
(* rules of the clients.  Losing the connection is not an answer: both    *)
(* clients let the library's exception through.                           *)

Fault == {"accessDenied", "guardrail", "invalidInput", "notFound", "throttled",
          "dailyQuota", "modelOutput", "tokenLimit", "internal", "unavailable", "conflict"}

Answer(status, reason) == [status |-> status, reason |-> reason, body |-> "object"]
SunburstAnswer ==
    [ accessDenied |-> Answer(403, ""), guardrail |-> Answer(400, "AGENT_GUARDRAILS_TRIGGERED"),
      invalidInput |-> Answer(400, "INVALID_INPUT"), notFound |-> Answer(404, ""),
      throttled |-> Answer(429, "RATE_LIMIT_EXCEEDED"),
      dailyQuota |-> Answer(429, "DAILY_QUOTA_LIMIT_EXCEEDED"),
      modelOutput |-> Answer(500, "InvalidModelGeneration"),
      tokenLimit |-> Answer(500, "RequestTokenLimitExceeded"),
      internal |-> Answer(500, ""), unavailable |-> Answer(503, ""),
      conflict |-> Answer(409, "") ]

Error(code, status, reason) == [code |-> code, status |-> status, reason |-> reason]
StarburstAnswer ==
    [ accessDenied |-> Error("AccessDeniedException", 403, ""),
      guardrail |-> Error("ValidationException", 400, "GuardrailIntervened"),
      invalidInput |-> Error("ValidationException", 400, ""),
      notFound |-> Error("ResourceNotFoundException", 404, ""),
      throttled |-> Error("ThrottlingException", 429, ""),
      dailyQuota |-> Error("ServiceQuotaExceededException", 402, ""),
      modelOutput |-> Error("InternalServerException", 500, "InvalidModelGeneration"),
      tokenLimit |-> Error("InternalServerException", 500, "RequestTokenLimitExceeded"),
      internal |-> Error("InternalServerException", 500, ""),
      unavailable |-> Error("ServiceUnavailableException", 503, ""),
      conflict |-> Error("ConflictException", 409, "") ]
=============================================================================
