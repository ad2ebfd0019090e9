----------------------------- MODULE SccpGetConfig -----------------------------
(***************************************************************************)
(* sccp_config_getConfig (src/src/sccp_config.c) over successive loads:   *)
(* each call destroys the config GLOB(cfg) holds, loads sccp.conf into     *)
(* GLOB(cfg) and checks what came back.                                    *)
(*                                                                         *)
(* pbx_config_load is ast_config_load2, outside this source: it returns a *)
(* new config object, or one of the CONFIG_STATUS_* pointers.  A config   *)
(* object is a number (the how-manieth load created it); the status       *)
(* pointers are the integer values of their casts.                         *)
(***************************************************************************)
EXTENDS Naturals, Bitwise, BagsExt

CONSTANTS
    FileStates,                  \* what sccp.conf on disk may be
    MaxLoads,                    \* bound on the config objects created
    CONFIG_FLAG_WITHCOMMENTS,    \* Asterisk config.h flag bits
    CONFIG_FLAG_FILEUNCHANGED,
    CONFIG_STATUS_FILEMISSING,   \* Asterisk's status pointers, as integers
    CONFIG_STATUS_FILEUNCHANGED,
    CONFIG_STATUS_FILEINVALID,
    CONFIG_STATUS_FILEOLD,       \* chan_sccp's own status pointers
    CONFIG_STATUS_FILE_NOT_SCCP

ASSUME FileStates \subseteq {"missing", "invalid", "old", "nogeneral", "ok"}

NULL == 0

\* The pointers pbx_config_load may return instead of a config.
Statuses == {CONFIG_STATUS_FILEMISSING, CONFIG_STATUS_FILEUNCHANGED,
             CONFIG_STATUS_FILEINVALID}

VARIABLES
    file,       \* sccp.conf on disk
    changed,    \* the file was edited since the last load of it
    cfg,        \* GLOB(cfg): NULL, a status pointer or a config object
    created,    \* the config objects loaded so far: 1..created
    destroyed,  \* bag: how often pbx_config_destroy got each pointer
    result      \* what the last call returned to its caller

vars == <<file, changed, cfg, created, destroyed, result>>

\* Module load: GLOB(cfg) is NULL and nothing has been loaded.
Init ==
    /\ file \in FileStates
    /\ changed = TRUE
    /\ cfg = NULL
    /\ created = 0
    /\ destroyed = <<>>
    /\ result = NULL

\* The administrator rewrites sccp.conf between loads.
EditFile ==
    /\ file' \in FileStates
    /\ changed' = TRUE
    /\ UNCHANGED <<cfg, created, destroyed, result>>

(***************************************************************************)
(* ast_config_load2(filename, "chan_sccp", flags): a missing file, then   *)
(* an unchanged one when flags ask for that test, then one that does not  *)
(* parse, give their status; otherwise a new config object.               *)
(***************************************************************************)
pbx_config_load(flags) ==
    CASE file = "missing"                                  -> CONFIG_STATUS_FILEMISSING
      [] (flags & CONFIG_FLAG_FILEUNCHANGED) # 0 /\ ~changed -> CONFIG_STATUS_FILEUNCHANGED
      [] file = "invalid"                                  -> CONFIG_STATUS_FILEINVALID
      [] OTHER                                             -> created + 1

\* pbx_config_destroy of a non-NULL pointer, counted.
Destroy(bag, p) == IF p # NULL THEN BagAdd(bag, p) ELSE bag

(***************************************************************************)
(* One call of sccp_config_getConfig.  config_flags is                    *)
(* CONFIG_FLAG_WITHCOMMENTS & CONFIG_FLAG_FILEUNCHANGED.  The old          *)
(* GLOB(cfg) is destroyed when not NULL and the load is stored in          *)
(* GLOB(cfg).  A status is returned as it is; a file in the old format   *)
(* (a [devices] section) or without [general] has its new config         *)
(* destroyed and the caller gets CONFIG_STATUS_FILEOLD or                  *)
(* CONFIG_STATUS_FILE_NOT_SCCP; otherwise the new config.                  *)
(***************************************************************************)
sccp_config_getConfig ==
    /\ created < MaxLoads
    /\ LET new == pbx_config_load(CONFIG_FLAG_WITHCOMMENTS & CONFIG_FLAG_FILEUNCHANGED)
           rejected == new \notin Statuses /\ file \in {"old", "nogeneral"}
       IN  /\ cfg' = new
           /\ created' = IF new \in Statuses THEN created ELSE new
           /\ destroyed' = IF rejected THEN Destroy(Destroy(destroyed, cfg), new)
                           ELSE Destroy(destroyed, cfg)
           /\ result' = CASE ~rejected       -> new
                          [] file = "old"    -> CONFIG_STATUS_FILEOLD
                          [] OTHER           -> CONFIG_STATUS_FILE_NOT_SCCP
           /\ changed' = (new \in Statuses /\ changed)
    /\ UNCHANGED file

Next == EditFile \/ sccp_config_getConfig

Spec == Init /\ [][Next]_vars

-----------------------------------------------------------------------------
(***************************************************************************)
(* pbx_config_destroy is only ever given a config object, once: each call *)
(* frees the config the previous call left in GLOB(cfg), and never a      *)
(* status pointer or a config already freed.                               *)
(***************************************************************************)
ConfigDestroyedOnce ==
    \A p \in DOMAIN destroyed : p \in 1..created /\ destroyed[p] = 1
================================================================================
