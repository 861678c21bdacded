------------------------------ MODULE CliAuth ------------------------------
(***************************************************************************)
(* How a browser command authenticates (cli/browser/utils/auth.py): by an  *)
(* API key of the environment or of the configuration file, or by AWS      *)
(* credentials.  The client the command builds reads the key from the      *)
(* environment, and takes a workflow of the AWS account when the mode is   *)
(* aws (cli/browser/services/session/connector.py).                        *)
(***************************************************************************)

\* What a command finds: a key in the environment, a key in the file (an
\* unreadable file has none), and AWS credentials for the profile.
Surroundings == [env : BOOLEAN, file : BOOLEAN, aws : BOOLEAN]

\* The mode, and whether the environment has a key afterwards.
Auth(mode, env) == [mode |-> mode, env |-> env]

\* The key of the file is not put into the environment.
ResolveApiKey_FileOnly(s) == IF s.env \/ s.file THEN Auth("api-key", s.env) ELSE Auth("error", s.env)

\* A key of the file is put into the environment.
ResolveApiKey(s) == IF s.env \/ s.file THEN Auth("api-key", TRUE) ELSE Auth("error", s.env)

ResolveAws(s) == IF s.env THEN Auth("error", s.env) ELSE Auth("aws", s.env)

\* The order: key of the environment, key of the file, AWS credentials.
AutoDetect(s) == IF s.env \/ s.file THEN ResolveApiKey(s)
                 ELSE Auth(IF s.aws THEN "aws" ELSE "error", s.env)

ResolveAuthMode(authMode, s) == CASE authMode = "api-key" -> ResolveApiKey(s)
                                  [] authMode = "aws" -> ResolveAws(s)
                                  [] OTHER -> AutoDetect(s)
=============================================================================
