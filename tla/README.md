# TLA+ models of chan-sccp's configuration engine

This directory holds TLA+ models of the configuration and reload engine of
chan-sccp (`src/src/sccp_config.c`), the checks TLC runs on them, and what
those checks show. `PROJECT.json` holds the machine-readable parts:
- the component list;
- the runs and the mutants that test each property;
- the map from every TLA+ definition to the source lines it models;
- the findings and the hazards.

## 1. The system and its parts

The repository's source has four files:

| File | What it holds |
|------|---------------|
| `src/src/sccp_config.c` | The whole configuration engine. |
| `src/src/common.h` | Protocol enums, message layouts, softkey tables and the protocol descriptor type. |
| `src/src/pbx_impl/ast/ast106.h` | Asterisk 1.6 compatibility macros. |
| `src/unnamed/part_000` | `sccp_refcount.h`, including the `with_ref` macro. |

The parts of `sccp_config.c` and how they interact:

- **Option registry.** These are the static tables `sccpGlobalConfigOptions`, `sccpDeviceConfigOptions`, `sccpLineConfigOptions` and `sccpSoftKeyConfigOptions`. A row holds a name, a field offset, a type, a flag word, a change class and a default. The change class is `SCCP_CONFIG_NOUPDATENEEDED` or `SCCP_CONFIG_NEEDDEVICERESET`. A row may also hold a converter. `sccp_find_segment` and `sccp_find_config` look rows up by name.
- **Reconciliation engine.**
  - `sccp_config_object_setValue` writes one `name = value` pair into a live object (globals, device or line). It returns a change word.
  - `sccp_config_set_defaults` gives every row the file did not set its default. It may inherit the default from `[general]` (`GET_GLOBAL_DEFAULT`).
  - `sccp_config_apply{Global,Device,Line}Configuration` run setValue over a section and OR the change words together. They then call set_defaults.
  - The device version first clears the device's list fields (addons, permithosts, variables, ACL) when the device is `pendingDelete`.
- **Reload orchestration.**
  - `sccp_config_general` applies `[general]` and sets `GLOB(pendingUpdate)` when the result equals `NEEDDEVICERESET`.
  - `sccp_config_readDevicesLines` does the following:
    1. On a reload, it marks every registered device and line `pendingDelete` (the `*_pre_reload` handlers).
    2. It browses the categories. For each device or line it finds or creates the object and calls `sccp_config_buildDevice` / `sccp_config_buildLine`. These clear `pendingDelete` and set `pendingUpdate` for a reset-requiring change.
    3. It propagates `GLOB(pendingUpdate)` to every device.
    4. On a reload, it calls the `*_post_reload` handlers. They remove what is still `pendingDelete` and reset what is `pendingUpdate`.
- **Value converters.** About 30 `sccp_config_parse_*` functions. Some of them (addons, permithosts, permit/deny, buttons, mailboxes, variables) insert into lists rather than overwrite.
- **Button configuration.** `sccp_config_parse_button` and `sccp_config_addButton` reconcile a device's button list. They reuse a `pendingDelete` button of the same type and label.
- **Softkey sets.** `sccp_config_softKeySet`, `sccp_config_readSoftSet` and `sccp_config_getSoftkeyLbl` build per-mode key lists from the `softKeyTemplate` and `SoftKeyModes` tables of `common.h`.
- **Feature restore.** After building a device, the device category calls `sccp_config_restoreDeviceFeatureStatus`. It reads the device's saved DND, monitor, privacy and last dialled number, and the global message of the day, from the Asterisk database (family `SCCP/<device id>` and `SCCP/message`).
- **File loading.** `sccp_config_getConfig` reads `sccp.conf`; `cleanup_stale_contexts` removes dialplan contexts. Both are I/O against Asterisk.

`common.h` holds the Skinny message ids, the `sccp_data_t` union of message layouts and the `sccp_moo_t` envelope. It also declares the `sccp_deviceProtocol_t` callback table. The code that decodes messages and selects a protocol version is not in this source.

### Hard behaviours

Only one reload runs at a time: the CLI refuses a second one. The engine is
synchronous and reconciles one object at a time. The hard part is therefore
not concurrency. It is the **sequence** of flag updates across a load, a
reload and the handlers they call, and the **arithmetic** of change words:

- which handler sets or clears `pendingDelete` / `pendingUpdate`, and in what order;
- that the change word is OR-accumulated but compared with `==`;
- that set_defaults carries a running value from one row to the next;
- that list converters append, so only an explicit clear prevents duplicates;
- that the initial load and a reload take different paths through the same code.

## 2. Modules

| Module | Models |
|--------|--------|
| `SccpConfigOptions` | The option registry and the reconciliation engine, as pure operators over a live object (a record). |
| `SccpConfigReload` | The load/reload state machine over a registry of devices and lines, with the feature restore of each device. |
| `ConfigRegistry` | The abstract specification of a load: the registry is replaced, in one step, by what the file admits, and a requested load always commits. `SccpConfigReload` implements it. |
| `SccpButtonConfig` | One device's button list across loads and reloads (`sccp_config_parse_button`, `sccp_config_addButton`), with the devstate specifiers derived from it and their restore. |
| `SccpSoftKeySets` | The softkey-set builder (`sccp_config_softKeySet`, `sccp_config_readSoftSet`, `sccp_config_getSoftkeyLbl`) over `softKeySetConfig` and the heap blocks of the key arrays, with a concurrent reader. |
| `SccpConverters` | The value converters (`sccp_config_parse_*`) and the CHAR, STRING, STRINGPTR, BOOLEAN and GENERIC cases of `sccp_config_object_setValue`, applied in any order to one live object. |
| `SccpRegContext` | The regcontext setup at the end of `sccp_config_general` and `cleanup_stale_contexts`, across loads. |
| `SccpGetConfig` | `sccp_config_getConfig` across successive loads of an edited `sccp.conf`. |
| `WithRef` | The `with_ref` scope macro of `sccp_refcount.h`, run by several threads on one object whose owner may drop its reference. |
| `MC_SccpConfigReload`, `MC_SccpButtonConfig`, `MC_SccpSoftKeySets`, `MC_SccpConverters`, `MC_SccpRegContext` | The constant values the `.cfg` files use: the sections a file may hold and the numerals. |

### SccpConfigOptions

- `Option` is one table row.
- `sccpGlobalConfigOptions`, `sccpDeviceConfigOptions` and `sccpLineConfigOptions` keep the rows the reload properties need, in table order:
  - global: servername, keepalive, port;
  - device: name, devicetype, keepalive (`GET_GLOBAL_DEFAULT`), addon;
  - line: name, label, cid_name, cid_num (all three `REQUIRED`), and test2 (`DEPRECATED`, stored in regexten).

  The flags, types, change classes, defaults and converters are those of the source rows.
- `sccp_config_object_setValue` keeps the control flow of the code:
  - the not-found and offset tests;
  - `switch (flags)` on the whole flag word, with CHANGED and DEPRECATED falling through into OBSOLETE's return;
  - the REQUIRED NULL test;
  - the type switch (`ConvertValue`);
  - the tail that maps `changed == CHANGED` to `option->change`.

  The STRING case assigns `SCCP_CONFIG_CHANGE_CHANGED` to the return value directly, as the code does.
- `SetDefaultsFrom` is the loop of `sccp_config_set_defaults`, written as a RECURSIVE operator:
  - the running `value` starts as `""`;
  - `ResolveDefault` is the fall-through chain of the flag switch;
  - `value` is reset to NULL only after a row resolved to a non-NULL value;
  - the result of setValue is discarded.
- `ApplyConfiguration` is the `res |= setValue(...)` loop (a `FoldLeft`) followed by set_defaults.

### SccpConfigReload

The variables mirror the program's state:

| Variable | Models |
|----------|--------|
| `conf` | `GLOB(cfg)` |
| `glob` | The modelled globals and `GLOB(pendingUpdate)` |
| `devices`, `dev` | `GLOB(devices)` and each `sccp_device_t` |
| `lines`, `line` | `GLOB(lines)` and each `sccp_line_t` |
| `phase`, `readingtype`, `todo` | Where the load sequence is; `todo` is the categories `pbx_category_browse` has still to return |
| `snap`, `applied` | History (not program state): the registry when the load started, and whether a load has completed since the last edit |
| `astdb` | The Asterisk database the loads read; chosen at the start and never written (the feature handlers that write it are not in this source) |
| `rtdb` | The realtime line table (`GLOB(realtimelinetable)`): a row per line name, or none |

There is one action per handler step:

| Action | Models |
|--------|--------|
| `EditConfig` | The administrator rewrites the file. |
| `EditRealtime` | The realtime line table is edited between loads. |
| `LoadRealtimeLine` | A line the realtime table holds is referenced and created: `sccp_config_buildLine` with `isRealtime` TRUE. The lookup that calls it is outside this source, so the action is modelled from spec section 2 ("created when first referenced from config or realtime storage"). |
| `StartLoad` | Module load, then `sccp reload`. |
| `sccp_config_general` | `sccp_config_general`. |
| `BeginReadDevicesLines` | The pre-reload marking and the start of the category browse. |
| `ReadDeviceCategory` / `ReadLineCategory` | One category of the browse loop, including its skip branches and the early `pendingDelete` clear of an existing device. A device is built and then has its features restored (`sccp_config_restoreDeviceFeatureStatus`), in one step. |
| `ReloadRealtimeLines` | The `CS_SCCP_REALTIME` block after the category loop: a realtime line the table no longer holds becomes `pendingDelete`; any other has its row applied by `sccp_config_applyLineConfiguration` and becomes `pendingUpdate` on `NEEDDEVICERESET`. |
| `EndReadDevicesLines` | The `GLOB(pendingUpdate)` propagation. |
| `PostReload` | The line and device post-reload handlers. They are not in this source; they are modelled from the orchestration comment at the top of `sccp_config.c`. |

A handler is one atomic step because the engine holds exclusive access to the
registry for the whole reload.

**Refinement.** `ConfigRegistry` has three variables: the file, the committed
registry (object name to settings), and `busy`. Its actions are `Edit`,
`Request` and `Commit`; `Commit` sets the registry to
`[n \in Admit(file) |-> Settings(file, n)]`. `SccpConfigReload` instantiates it
as `Registry`. The mapping works like this:
- `busy` is `phase # "idle"`;
- the registry is the live one between loads and the snapshot `snap` while a load runs, so the steps of a load are stuttering steps until the one that ends it;
- the step that ends a load is `EndReadDevicesLines` on the first load and `PostReload` on a reload, and it is the abstract `Commit`;
- `Admit` is the device sections with a devicetype and the line sections the requirement test does not skip;
- `Settings` is a device's devicetype and its own or inherited keepalive, and a line's label.

A line's `cid_name` and `cid_num` are left out of `Settings`. They are REQUIRED
rows with no default, so `set_defaults` never resets one that a reload drops,
and the line keeps its old value. This is part of the line-requirements
finding.

Realtime lines do not come from `sccp.conf`, so the mapping leaves them out of
the registry. A realtime line that a reload finds in the file becomes a file
line, because `sccp_config_buildLine` is called with `isRealtime` FALSE.

The restore is a record update: `RestoreDnd` ("silent" is SILENT, any other
saved value REJECT, none OFF), `ScanNumber` (`sscanf`, which leaves the field
as it was on text that is not a number) and `RestoreMessage`. The message's
`timeout` is a local that is never initialised; when no numeral is saved, the
step chooses its value from `Garbage` (zero or not), so both the priority
notify and the idle-stack routes are reached.

### SccpButtonConfig

`buttons` is `d->buttonconfig` in list order. `conf` is the device section's
`button =` entries. A pass consists of these actions:

| Action | Models |
|--------|--------|
| `StartPass` | On a reload, the device pre-reload marking of every button `pendingDelete`. |
| `ApplyButtonEntry` | One entry through the `button` row's converter. |
| `EndEntries` | The end of the section: the `CS_DEVSTATE_FEATURE` tail of `sccp_config_applyDeviceConfiguration` appends a specifier per devstate feature button (`RegisterDevstateSpecifiers`), and the devstate loop of `sccp_config_restoreDeviceFeatureStatus` gives each specifier a database entry (`RestoreDevstateEntries`) and a new event subscription (`SubscribeAll`). |
| `PostReload` | Drops the buttons still `pendingDelete`. |

`specifiers` is `d->devstateSpecifiers`, `stored` the specifiers the devstate
database family holds, and `subs` a bag of the subscriptions made per
specifier; a count saturates at 2, since the properties only tell one from
more. `MaxSpecifiers = 3` bounds the specifier list: a pass is only started
while the list stays within it.

The button pre- and post-reload handling is not in this source. It is modelled from the reload comment: mark, then remove what is still marked.

`sccp_config_addButton` is one operator:
- the traversal (`AddButtonMatch`) stops at the first button that is `pendingDelete` and has the parsed type, and, unless it is EMPTY, the same label;
- the matched button is reused in place, or a calloc'd button with index 0 is appended;
- the faulty-entry test follows;
- the merge switch (`MergeButton`) covers all five types.

The button union is abstracted to two fields: `opt` (`line.options` / `speeddial.ext` / `service.url` / `feature.id`) and `args` (`speeddial.hint` / `feature.options`). A field a case does not assign keeps its old content.

### SccpSoftKeySets

`sets` is `softKeySetConfig`, head first, and each set has `numberOfSoftKeySets` and
`modes[0..11]` of `[id, ptr, count]`. `heap` maps each block calloc may return to
whether it is allocated, its count and its 16 key slots. `conf` is the file's
softkeyset sections in browse order. The writer steps are:

| Action | Models |
|--------|--------|
| `Reload` | `sccp_config_readDevicesLines` reading the file again. Its softkeyset branch hands each section to `sccp_config_softKeySet`. |
| `FindOrCreate` | The traversal by name, or a calloc'd set inserted at the head. |
| `SkipVariable` | A variable whose name is no key mode (`type`, unknown names). |
| `BeginMode` | The key-mode name chain and the raise of `numberOfSoftKeySets`. |
| `FreeOld` | `sccp_free(modes[i].ptr)`. The pointer is left in place. |
| `Fill` | `sccp_calloc` of a key array and `sccp_config_readSoftSet` into it. |
| `PublishPtr` | The stores of `id` and `ptr`, or, for an empty result, `ptr = NULL`, `count = 0` and the free. |
| `PublishCount` | The store of `count`, and the move to the next variable. |
| `EndSection` | `sccp_config_softKeySet` returns. |

The per-mode update is split at its stores because the set is already in the list
and no lock is held around them. `ReaderLoad` and `ReaderUse` stand for the wire layer,
which is not in this source. It loads a mode's `ptr` and `count` and then reads the array.
`sccp_config_readSoftSet` keeps the code's limits: it stores at most
`StationMaxSoftKeySetDefinition - 1` labels and pads from the slot after the last one.
The slot in between keeps calloc's zero (`LBL_0`). `StrcpyBytes` is what
`strcpy(labels, data)` writes: the labels' lengths (`LabelBytes`), the commas
and the NUL, against the 256 bytes of `labels[]`.

### SccpConverters

`obj` maps each struct member a modelled row writes to its value. Rows that share a
member (allow and disallow, permit and deny) write the same entry, as their offsets do.
`last` is the `<<name, value>>` pair of the latest call, and `repeated` says whether it
repeated the call before. `changed` and `res` are the case's `sccp_value_changed_t`
and what setValue returns. There is one action:

| Action | Models |
|--------|--------|
| `Apply(name, v, u)` | One `sccp_config_object_setValue(obj, name, v)` call: the type case, the row's `converter_f` for a GENERIC row (`ConverterOf`), and the tail that maps CHANGED to the row's change class (`SetValue`). `u` is what uninitialised memory holds in that call. |

Each converter is an operator named after its C function (`sccp_config_parse_tos`,
`sccp_config_parse_group`, ...). It returns the member's new value and the change
result, and follows the function's branches and compare-and-store. The rows come from
the three option tables (`GlobalConverterRows`, `DeviceConverterRows`,
`LineConverterRows`).

What a string means to the world outside this source comes from the cfg's tables:
- its characters (`Chars`);
- the number `sscanf` reads from it (`Numerals`);
- the host it resolves to (`Hosts`);
- the DSCP or AMA name it is (`TosNames`, `AmaNames`);
- the codecs (`Codecs`).

The parsing done inside this source is modelled over the characters:
- `strsep` at "," and "@";
- `sscanf("%30d-%30d")`, including its EOF on an empty piece;
- `strlen`;
- the `sccp_copy_string` truncation.

Two reads of uninitialised memory are nondeterministic choices. They are the name
compared in `parse_permithosts`, and `cos` when `sscanf` fails.

### SccpRegContext

`regcontext` and `used_context` are the two globals. `contexts` is the set of dialplan
contexts registered by "SCCP". Strings are character sequences, and `Pieces` is the
`strsep(&s, "&")` loop. The single action `sccp_config_general(rc)` is the tail of that
function for a file whose regcontext is `rc`. It runs in this order:
1. `cleanup_stale_contexts(new, GLOB(used_context))`: the outer loop over the old
   list and the inner scan with its `break` (`StaleAfterScan`). Each stale name is
   destroyed with `ast_context_destroy(ast_context_find(name))`.
2. The creation loop. It copies each created name into `GLOB(used_context)`.

Asterisk's `ast_context_destroy(NULL, registrar)` destroys every context of that
registrar, as `pbx.h` documents, and the model does the same. This matters only on the
first load, when `used_context` is empty. The sections before the tail (the `[general]`
options and bindaddr) are modelled by `SccpConfigReload` and `SccpConverters`.

### SccpGetConfig

`sccp_config_getConfig` over successive loads, with the file on disk edited
between them. The variables are `file` (what `sccp.conf` is: missing, does not
parse, old format, no `[general]`, or fine), `changed` (edited since the last
load), `cfg` (`GLOB(cfg)`), `created` (config objects loaded so far, each named
by its number) and `destroyed`, a bag of the pointers given to
`pbx_config_destroy`. `pbx_config_load` (`ast_config_load2`, outside this
source) is modelled from its documented results. `config_flags` is computed
with `Bitwise` as the code writes it, `WITHCOMMENTS & FILEUNCHANGED`, which is
0, so the unchanged-file result never comes back.

The status pointers are model values, except `CONFIG_STATUS_FILEMISSING`, which
is NULL (as in Asterisk 1.6.2 and later), so that a missing file is harmless and
the run has to find a real misuse.

### WithRef

Each thread has `counter` (`with_counter`), `ptr` (the macro argument `_a`) and `pc`.
The pc values are the loop test, ENTRY, EXIT, the DO-body and done. `refs` is the
object's count, and `ownerHolds` says whether its owner still holds a reference.

| Action | Models |
|--------|--------|
| `LoopTest(t)` | `with_counter-- > 0` and the branch the decremented value selects. |
| `Entry(t)` | `_a = sccp_refcount_retain(_a)`, and on NULL `with_counter = 0; break`. |
| `Exit(t)` | `_a = sccp_refcount_release(_a)` and `break`. |
| `Body(t)` | The statement that follows `with_ref(_a)`. |
| `OwnerRelease` | The owner dropping its reference at any point. |

Retain and release are outside this source. They are modelled from spec section 9:
retain succeeds while the object is alive and fails once it is gone.

## 3. Runs

| Run | Config | Expect | Checks |
|-----|--------|--------|--------|
| reload_core | `MC_SccpConfigReload.cfg` | pass | `TypeOK`, `FeaturesMatchDatabase` |
| reload_refines_registry | `MC_RegistryRefined.cfg` | pass | `RegistryRefined` |
| loaded_state_off_spec | `MC_LoadedStateMeetsSpec.cfg` | violation | `LoadedStateMeetsSpec` |
| buttons_core | `MC_SccpButtonConfig.cfg` | pass | `TypeOK`, `ButtonSetMatchesConfig`, `DevstateWatched` |
| buttons_out_of_order | `MC_ButtonsMatchConfig.cfg` | violation | `ButtonStateMatchesConfig` |
| softkeys_core | `MC_SccpSoftKeySets.cfg` | pass | `TypeOK`, `SoftKeySetsMatchConfig`, `KeySetsOwned`, `ModesWithinNumber` |
| softkeys_off_spec | `MC_ReaderSeesPublishedKeySet.cfg` | violation | `SoftKeySetsMeetSpec` |
| converters_core | `MC_SccpConverters.cfg` | pass | `TypeOK`, `ConverterContract` |
| converters_off_spec | `MC_ConverterContract.cfg` | violation | `ConvertersMeetSpec` |
| with_ref_body_skipped | `MC_WithRefRunsBody.cfg` | violation | `WithRefRunsBody` |
| regcontext_leak | `MC_ContextsMatchRegcontext.cfg` | violation | `ContextsMatchRegcontext` |
| config_destroyed_twice | `MC_ConfigDestroyedOnce.cfg` | violation | `ConfigDestroyedOnce` |

**What reload_core shows.** The run covers every sequence of edits, loads and reloads over the sections below and three databases, with an empty realtime table: 580,176 distinct states, about 75 s with coverage.
- `FeaturesMatchDatabase`: between loads, every registered device holds the feature state the database saved for it, through reloads that change its configuration, remove it and re-create it. DND is OFF exactly when none is saved and SILENT exactly when "silent" is; monitor is on exactly when saved; privacy is the saved number, or 0 when none is saved; the last dialled number is the saved one; a message with a saved non-zero timeout goes out as a priority notify; the priority feature is uninitialised.

**What reload_refines_registry shows.** The run uses the same sections with an
empty database, which the registry does not depend on. The realtime table has
either no row for the line or a row with another label, and is edited between
loads, so realtime lines are created, reloaded and deleted beside the file's:
334,924 distinct states, about 135 s with coverage. `RegistryRefined` is `Registry!SafetySpec /\ Registry!Completes`.
- **Safety.** No step of a load changes the committed registry before its last step. The last step leaves exactly the devices and lines the file admits: a removed or skipped object is gone and a kept one survives, which is the pre-reload / build / post-reload flag protocol working end to end. Each device has its configured devicetype and its own keepalive, else the one in `[general]`, else 60 (the `GET_GLOBAL_DEFAULT` fall-through of set_defaults). Each line has its label.
- **Liveness.** `Completes` is `busy ~> ~busy`: every load that starts also ends. In `ConfigRegistry`, `Commit` is enabled exactly when `busy`, so `Completes` is equivalent to the abstract `WF_vars(Commit)`. It is stated this way because TLC would otherwise evaluate `ENABLED` through the refinement mapping.

**What buttons_core shows.** The run covers every sequence of edits, loads and reloads of a section of up to two entries: 43,635 distinct states. `ButtonSetMatchesConfig` says the device's buttons are, as a bag, one per known entry:
- empty slots for faulty entries;
- each line, speeddial or service once per entry naming it.

Reusing `pendingDelete` buttons never merges two entries into one button, and post-reload never drops a live one.

`DevstateWatched` says that after every pass each devstate specifier has a database entry and a subscription, so a custom state reaches its button.

**What softkeys_core shows.** The run covers every sequence of reloads of files of up to two softkeyset sections, with a reader running at any point: 296,367 distinct states, about 30 s. It checks three properties:
- `SoftKeySetsMatchConfig`: after a pass, every section has exactly one set of its name. Each mode it names holds the labels of the last value given for it, with unknown labels as EMPTY. Reloads update sets in place.
- `KeySetsOwned`: between variables, every allocated key array belongs to exactly one mode, and no mode points at a freed array. The free-then-calloc sequence neither leaks nor shares arrays.
- `ModesWithinNumber`: every filled mode lies below `numberOfSoftKeySets`, even after a pass that names only lower modes.

**What converters_core shows.** The run covers every sequence of setValue calls on one object, with values drawn for twelve rows:
- blindtransferindication, callanswerorder, firstdigittimeout, amaflags;
- pickupcontext, regcontext, digittimeoutchar, simulate_enbloc;
- trnsfvm, debug, deny, permit.

It reaches 295,489 distinct states in about 2 min 20 s with coverage on. debug keeps the contract: `sccp_config_parse_debug` stores the mask `sccp_parse_debugline` gives when it differs from `GLOB(debug)`, so a repeated `debug = core` is no change. `ConverterContract` is an action property over any two consecutive calls:
- a value the option documents as malformed reports INVALIDVALUE and leaves the member as it was;
- a call that repeats the previous pair reports no change and leaves the member as it was.

This is what every reload relies on: it re-applies the whole file to live objects. For these rows the contract holds. deny and permit keep it only because the ACL never gets a first rule, which `AclRulesStored` reports.

Each property is broken by a mutant of the code it depends on (see `mutants` in PROJECT.json).

**What the violation runs show.** Each one is a defect of the code; the findings in PROJECT.json give the trace and the line:

- **converters_off_spec.** `ConvertersMeetSpec` is `ConverterContract /\ AclRulesStored`, and each conjunct is violated on its own. `AclRulesStored` fails on the first permit or deny: `parse_permit` and `parse_deny` pass `*ha` by value and drop what `sccp_append_ha` returns, so the first rule of an empty ACL is lost and every later one with it (line 1003). Spec 4.4 step 5 builds access lists with list-insertion converters.
  The contract fails for the other sixteen rows: bindaddr, allow, disallow, sccp_tos, sccp_cos, earlyrtp, dnd, mwilamp, callgroup, dtmfmode, privacy, permithost, addon, mailbox, secondary_dialtone_digits and setvar. TLC reports bindaddr first: it compares `inet_ntoa` text with raw `h_addr` bytes, so the same host is CHANGED every time. Each of the other rows was also checked alone against the contract, and each fails it:
  - the list converters (addon, permithost, setvar, mailbox, the codec lists) add or report a change on every call, and the clear that readDevicesLines skips (line 1994) is the only thing that stops duplicates;
  - earlyrtp, dtmfmode, mwilamp and tos store 0 (0x68) for an unknown name and report CHANGED;
  - cos stores uninitialised memory;
  - a 9-digit secondary_dialtone_digits is truncated to 8 and so differs on every reload;
  - dnd and privacy accept any word through `sccp_true`;
  - callgroup skips a piece that does not scan, so a malformed group reports no change rather than INVALIDVALUE;
- **regcontext_leak.** The loop that creates the regcontext contexts copies each one into `GLOB(used_context)` in turn, so only the last is remembered. The next load's `cleanup_stale_contexts` compares the new list with that one name. After regcontext `a&b` and then `c`, context `a` is still in the dialplan.
- **with_ref_body_skipped.** The `with_ref` counter starts at 3 and is post-decremented, so the iterations see 2 (ENTRY) and 1 (EXIT), and the DO-body never runs. A thread retains and releases the object and skips its body.
- **loaded_state_off_spec.** `LoadedStateMeetsSpec` is `GlobalDefaultsApplied /\ LineSectionsComplete /\ ResetFlagsMatchChanges /\ DeprecatedValuesApplied /\ ConfiguredPortApplied /\ RealtimeLinesKept`; each conjunct was checked on its own and is violated. set_defaults' running value starts as `""`, which swallows the default of the first unset row. The line requirement test accepts a line missing `cid_name` or `cid_num`, and a reload that drops one of them leaves the old value in place.
  `DeprecatedValuesApplied` fails on the first load of a line with `test2 = 2000`. `switch (flags)` sends DEPRECATED (and CHANGED) into OBSOLETE's `return`, so the value is never stored. Spec 4.4 step 1 and the flag's comment ("warn user and still set variable") say it is applied. The device row `nat` escapes this only because its flags also carry GET_GLOBAL_DEFAULT, so the switch matches no case.
  `ConfiguredPortApplied` fails on the first load with `port = 2001`. The port row is GENERIC with no converter, so the value is dropped and `sccp_config_general` sets `DEFAULT_SCCP_PORT`. The row's description says "listen on port", and spec section 8 relies on a changed port flagging a device reset.
  `RealtimeLinesKept` fails on the first reload after a realtime line is created. The pre-reload handler marks the line `pendingDelete`. The realtime loop (line 2054) applies its row with `sccp_config_applyLineConfiguration`, but only `sccp_config_buildLine` clears the flag, so the post-reload handler removes a line its table still holds. Spec section 2 says `pendingDelete` is cleared if the object is still present.
  The third conjunct, `ResetFlagsMatchChanges`, says that at post-reload the reset flags are exactly the reload's reset-class changes. It has two halves.

  `NoResetWithoutChange` says no device is flagged without such a change. TLC reports this half first: the initial load sets `GLOB(pendingUpdate)` and flags every new device, and with no post-reload to consume the flags, the next reload resets unchanged devices.

  `ResetChangesFlagged` says every such change is flagged, on the device, on the line, or in `GLOB(pendingUpdate)`. It is broken by three defects. Each was confirmed by checking its conjunct (`DeviceResetFlagged`, `LineResetFlagged`, `GlobalResetPropagated`) alone:
  - readDevicesLines clears `pendingDelete` before buildDevice reads it (line 1994), so a changed devicetype or keepalive is not flagged;
  - the STRING case returns `CHANGE_CHANGED` (1) rather than the row's change class, so a changed label never asks for a reset (line 593);
  - `res == NEEDDEVICERESET` fails when a string change is OR-ed in, and defaults applied by set_defaults report nothing (line 1837).
- **config_destroyed_twice.** `sccp_config_getConfig` leaves in `GLOB(cfg)` what it returned or freed. A file that does not parse leaves `CONFIG_STATUS_FILEINVALID`, which the next reload passes to `pbx_config_destroy` (3 states). A file without `[general]` (or with the old `[devices]` section) has its new config destroyed, and the next reload destroys it again.
- **softkeys_off_spec.** `SoftKeySetsMeetSpec` is `ReaderSeesPublishedKeySet /\ LabelsKeptUpToCapacity /\ ValueFitsLabelBuffer`, and each conjunct is violated on its own.
  - A reader that loads a mode during a reload can get the freed old array, between the free and the `ptr` store. It can also get the new array with the old count, between the `ptr` and `count` stores.
  - `onhook` given 16 labels, which fit the 16-slot array `sccp_config_softKeySet` callocs, keeps 15: the loop test `(i + 1) < StationMaxSoftKeySetDefinition` (line 2408) stops one short. Spec 4.5 stores the labels as a fixed-capacity array plus a count.
  - `onhook` given 37 labels of `newcall` is 296 bytes with its commas and NUL, and `strcpy` copies it into the 256-byte `labels[]` with no length check (line 2406).
- **buttons_out_of_order.** Reused buttons stay where they were and new ones are appended, so reordering the button lines is not applied. A faulty entry never reuses its own EMPTY button, so even reloading an unchanged section can move it. A line button whose label is unchanged also keeps its old options and reports NOCHANGE. `ButtonStateMatchesConfig` is `ButtonsMatchConfig /\ ButtonsKeyedByPosition /\ DevstateMatchesButtons`, and each conjunct is violated on its own. `ButtonsKeyedByPosition` fails as soon as a device has one button: `sccp_config_addButton` is always called with index 0, so every button gets index 0, where spec 4.4 item 6 keys the list by position. The second fails because every pass appends a specifier per devstate button, removed ones included, and subscribes every specifier again: after a load with one devstate button and a reload without it, the device has no button, two specifiers and two subscriptions.

## 4. Bounds and abstractions

- **Objects.** There is one device (`SEP0001`) and one line (`1000`), browsed in that order. Every property is about one object and its own history, or about globals against every device, so a second object of the same kind adds states and no new case.
- **Sections.** A section is a record of its keys, and `NoValue` stands for a key that is absent. The file may hold any combination of these:
  - four `[general]` sections:
    - a port alone;
    - a name and a keepalive;
    - another keepalive and a port;
    - a name alone;
  - four device sections, or none:
    - no devicetype;
    - a bare 7960;
    - a 7960 with its own keepalive and one known and one unknown addon;
    - a 7940;
  - four line sections, or none:
    - complete;
    - another label, with the deprecated test2;
    - no label;
    - no cid_name.

  Together they make every kind of change possible between two loads:
  - reset and non-reset changes;
  - explicit value to default, and back;
  - device and line added, removed or invalidated;
  - addon lists that grow.
- **Empty `[general]`.** A `[general]` with no entries makes `sccp_config_general` return FALSE, and its caller is not in this source. Such a file is therefore not among the values, and the action is guarded on a non-empty section.
- **Values.** Values are a few strings. Integers come from a numeral table `Numerals`, which models `atoi`: an unknown numeral is 0.
- **Databases.** `MC_AstDbs` holds three databases, one chosen per behaviour: everything saved (DND "silent", monitor, privacy "1", a last number, a message with timeout "30"); DND "on", privacy "x" and a message without a timeout; nothing saved. Between them every branch of the restore is taken: the three DND outcomes, monitor on and off, privacy numeric, unparsable and absent, and both message routes. A database that changes between loads would multiply the states by about five and push the run past its time limit.
- **Addon bound.** `MaxAddons = 2` bounds an addon list. A reload is only started while every list stays within it. That is enough for the duplication to show and keeps the state space finite.
- **Assumed enum values.** `sccp_config.h`, where the enums are declared, is not in this source. The cfg uses the values the code's arithmetic assumes:
  - `NOUPDATENEEDED = 0`, `NEEDDEVICERESET = 2`;
  - `CHANGE_NOCHANGE = 0`, `CHANGED = 1`, `INVALIDVALUE = 2`.

  `res |= ...` only makes sense with distinct bits. The findings on the `==` test depend on `CHANGED` differing from `NEEDDEVICERESET`.
- **Buttons.** There is one device, with up to two entries from six kinds:
  - line A;
  - line A with options;
  - line B;
  - speeddial C;
  - speeddial C without an extension (faulty);
  - an unknown type;
  - a devstate feature button D with specifier `custom1`.

  Together they allow reordering, an options change, a type change, a faulty entry, an unknown token, and two entries with the same label. `CallocType = "LINE"` assumes `button_type_t` starts at LINE. The enum is declared in a header that is not in this source.
- **Softkey sets.** There are three versions of set `default` and one of set `other`, and a file holds up to two of them:
  - two modes;
  - `type`, an unknown label and the same mode given twice;
  - a third mode alone;
  - an unknown key-mode name before a known one.

  Across reloads this adds and keeps modes, overwrites a mode, and names lower modes after higher ones. Four heap blocks cover the at most four live arrays, and calloc may reuse a freed block. The blocks are model values under symmetry, which is sound because calloc may return any free block. Label ids are the label names. In the pass run values have at most two labels. The violation run adds two more versions of `default`: one with exactly `StationMaxSoftKeySetDefinition` (16, the code's value) labels, the boundary of the array, and one of 37 labels, past the 256-byte buffer.
- **Converters.** Each row gets two or three values. One is malformed where the option documents a format; the others differ, so that a change and a repeat both happen. `MaxList = 3` bounds a list member: a list converter keeps growing, so the constraint keeps the state space finite. It still lets a value be applied twice. `CosGarbage = {0, 5, 200}` covers uninitialised memory that holds the old value, a valid one or an out-of-range one. The converter rows are split over the two runs, because the rows that break the contract would stop the pass run before it explores the others.
- **regcontext.** The files' regcontext values are `a&b`, `b` and `c`. Names are single characters, so the `SCCP_MAX_CONTEXT` truncation never applies. Three values allow a reload to drop the first name of a list, drop the last, and keep one.
- **getConfig.** All five kinds of file and `MaxLoads = 3` config objects: a bad file needs one load before it to matter, and a double free needs a good load, a rejected one and one more.
- **with_ref.** Two threads and one owner are enough: one thread's retain can race the owner's release while the other thread has already retained.
- **Deadlock.** Deadlock is checked. The model never stops, because `EditConfig` and `StartLoad` are always available between loads.

## 5. Fairness

The specification has weak fairness on every step of a load. The handlers
run to completion once a load starts, since nothing in them waits. Editing the file or
the realtime table, issuing a reload and referencing a realtime line are the
choices of the administrator and the phones, so they have no fairness.
`SccpSoftKeySets` has no fairness and no liveness property, since its properties are all safety. `SccpConverters` and `WithRef` have no fairness either.
`reload_refines_registry` checks liveness: every load ends. Four of the load's
steps run the apply loop: `sccp_config_general`, `ReadDeviceCategory`,
`ReadLineCategory` and `ReloadRealtimeLines`. Their weak fairness is written as
`[]<>~G \/ []<><<A>>_vars`, where `G` is the step's guard. That is `WF_vars(A)`,
because whenever its guard holds the step can be taken and changes `phase` or
`todo`, so `ENABLED <<A>>_vars` is `G`. Written with `WF_vars`, TLC evaluates the
apply loop under `ENABLED` without caching, and one state takes minutes.

"A softkey pass completes" (weak fairness on the writer's steps) holds, but only
under the run's symmetry. Liveness under symmetry is not sound in TLC, and without
symmetry the run takes well over five minutes.

## 6. Not modelled, and why

- **Realtime devices.** `sccp_config_buildDevice` stores `isRealtime` in `d->realtime`, but nothing in this source reads it or reloads a realtime device, so the device record has no such field. (Realtime lines are modelled.)
- **Sections without `type`** and the **softkeyset category** of the browse in `SccpConfigReload`. These are not needed by the reload properties. Softkey sets are modelled by `SccpSoftKeySets`.
- **Two converters.** `sccp_config_parse_port` and `sccp_config_parse_protocolversion` are not modelled: the port row has no converter (see `ConfiguredPortApplied`) and the protocolversion row is commented out, so the code never calls them. `sccp_parse_debugline`, which `sccp_config_parse_debug` calls, is outside this source; the model takes its result from the table `DebugLevels`.
- **What the ACL rules mean.** permit and deny are modelled as far as the member goes, and it stays empty. Matching addresses against the rules happens at registration, which is outside this source.
- **sccp_softkey_pre_reload.** `sccp_config_readDevicesLines` calls it before a reload (line 1949), but its body is not in this source. `SccpSoftKeySets` assumes it leaves the soft key sets in place, so a reload finds each set by name and updates it.
- **The feature handlers that write the database.** The database is fixed for a behaviour. The device `privacy` option is not among the modelled keys, so the restore overwriting a configured `privacy = full` is listed as a hazard only.
- **The message catalogue and protocol descriptor** of `common.h`. These are byte layouts with no state machine in this source.
- **`ast106.h`.** Compatibility macros only.

## 7. Plan for the following sittings

1. **`SccpButtonConfig`** is done. What remains is the change word it returns to setValue: a new button reports NOCHANGE, so adding a button requests no reset. A property on that is still to come.
2. **`SccpSoftKeySets`** is done. What remains:
   - a refinement of an abstract "name -> mode -> labels" map, with the reader's view as the point where it fails;
3. **`WithRef`** is done. Its body never runs, so a `break` inside it cannot skip the release. `_a` is NULL after every scope by design: the macro logs a failure only when `sccp_refcount_release` returns non-NULL.
4. **Wider option tables.** The DEPRECATED row test2 is modelled. The reload already refines `ConfigRegistry`; a finer abstract "reconcile a section" specification for `SccpConfigOptions` is still to come.
5. **The `common.h` tables used by the above**, as operators with the lines they model.

Twelve runs now exist, one per question asked. New properties for items 1 to 4 go into the
pass run of the module they concern, unless they answer a new question.
