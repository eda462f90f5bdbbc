---------------------------- MODULE RequestTable ----------------------------
(***************************************************************************)
(* The two exhaustive tables over the daemon's request type: classify      *)
(* (arbiter.rs), what a request costs the camera, and request_kind         *)
(* (live.rs), what live status calls it and whether it changes state.      *)
(* A request is named by its variant, with the one argument that decides   *)
(* its row.                                                                *)
(***************************************************************************)
AuthRequests == {"Authenticate", "UnsealPassword", "UnsealKeyring"}

StatusRequests ==
  {"Ping", "Health", "PreferencesStatus", "SealedStorage", "LastAttempts",
   "FaceSensorStatus", "HasSealedPassword", "KeyringMetadata", "RecoveryStatus",
   "RetryStatus", "RetryReset", "ListProfiles", "SupportSnapshot", "LiveStatus",
   "TraceSubscribe", "ListSplitAuthorizations", "SplitStatus"}

CameraRequests ==
  {"PositionSample", "PositionSession", "Identify", "IdentifyFor", "Enroll", "EnrollOn",
   "EnrollSplitOn", "EnrollmentSession", "AddScan", "AddCameraGroup", "AddCameraGroupOn",
   "AddSplitCameraGroupOn", "SetupIrEmitter", "SetupIrEmitter dry_run", "TuneCaptureMode",
   "CaptureModeStatus", "SelfTest", "CameraDiagnostics", "SupportProbe", "ListCameras"}

PlainRequests ==
  {"SetCameras", "SetCamerasIfCurrent", "AddSplitAuthorization", "RemoveSplitAuthorization",
   "SelectSplitPair", "DeleteProfile", "DeleteScan", "ForgetRecognizer", "RenameProfile",
   "RenameScan", "SetRequireEyesOpen", "RemoveCameraGroup", "CaptureEarMedian",
   "SetClosureCalibration", "FaceSensorStatus user", "SealPassword", "TpmReadiness",
   "TpmEndorsement", "KeyringInfo", "ForgetPassword", "ReleaseTokenForDisarm",
   "RecoverySetup", "RecoveryRestore", "RecoveryForget", "ResealPassword"}

RequestNames == AuthRequests \cup StatusRequests \cup CameraRequests \cup PlainRequests

classify(n) ==
  CASE n \in AuthRequests   -> "Auth"
    [] n \in StatusRequests -> "Status"
    [] n \in CameraRequests -> "Camera"
    [] n \in PlainRequests  -> "Plain"

\* The rows of request_kind; the other requests are not tracked.
request_kind(n) ==
  CASE n = "Authenticate" -> "Authentication"
    [] n \in {"UnsealPassword", "UnsealKeyring", "ReleaseTokenForDisarm"} -> "WalletAuthentication"
    [] n \in {"Enroll", "EnrollOn", "EnrollSplitOn", "EnrollmentSession", "AddScan",
              "AddCameraGroup", "AddCameraGroupOn", "AddSplitCameraGroupOn"} -> "Enrollment"
    [] n \in {"PositionSample", "PositionSession"} -> "Framing"
    [] n \in {"Identify", "IdentifyFor"} -> "Identification"
    [] n = "ListCameras" -> "CameraEnumeration"
    [] n \in {"SetCameras", "SetCamerasIfCurrent", "AddSplitAuthorization",
              "RemoveSplitAuthorization", "SelectSplitPair", "SetupIrEmitter",
              "SetupIrEmitter dry_run"} -> "CameraSetup"
    [] n = "TuneCaptureMode" -> "CaptureQualification"
    [] n \in {"CaptureModeStatus", "CameraDiagnostics", "SelfTest", "SupportProbe"}
         -> "CameraDiagnostics"
    [] n = "ListProfiles" -> "ProfileRead"
    [] n \in {"DeleteProfile", "DeleteScan", "ForgetRecognizer", "RenameProfile",
              "RemoveCameraGroup", "RenameScan", "SetRequireEyesOpen"} -> "ProfileUpdate"
    [] n = "FaceSensorStatus user" -> "SensorReadiness"
    [] n = "KeyringInfo" -> "WalletRead"
    [] n \in {"SealPassword", "ResealPassword", "ForgetPassword"} -> "WalletUpdate"
    [] n \in {"RecoverySetup", "RecoveryRestore", "RecoveryForget"} -> "RecoveryUpdate"
    [] n \in {"CaptureEarMedian", "SetClosureCalibration"} -> "Compatibility"
    [] OTHER -> "None"

changes_state(n) ==
  \/ request_kind(n) \in {"Enrollment", "CaptureQualification", "ProfileUpdate",
                          "WalletUpdate", "RecoveryUpdate"}
  \/ request_kind(n) = "CameraSetup" /\ n # "SetupIrEmitter dry_run"

\* The tables agree where the daemon relies on it: a request that can refuse
\* camera work, or hold the camera, is never invisible in live status, and an
\* authentication is named one.
ASSUME TablesAgree ==
  /\ \A n \in AuthRequests \cup CameraRequests : request_kind(n) # "None"
  /\ \A n \in AuthRequests : request_kind(n) \in {"Authentication", "WalletAuthentication"}
  /\ \A n \in StatusRequests : ~changes_state(n)
=============================================================================
