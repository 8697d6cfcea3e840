---------------------------- MODULE ApiContract -----------------------------
(***************************************************************************)
(* The operations that the API publishes (generated/api-types.ts) and      *)
(* `arker` uses: the fields a request may have, in its header, its query   *)
(* or its body, and the statuses it may be answered with.                  *)
(***************************************************************************)
EXTENDS Integers, Tables

Published(accepts, answers) == [accepts |-> accepts, answers |-> answers]
Page == {"cursor", "limit"}
Authenticated == {401, 403, 429, 500, 503}
OnMachine == {400, 404, 504} \union Authenticated

(* The bodies. *)
ForkRequest ==
  {"source_vm_id", "source_vm_name", "image", "dockerfile", "nestedvirt", "source_org_id",
   "source_org_name", "name", "description", "public", "ssh_public_keys", "disk", "durable",
   "platforms", "layers", "queueing_timeout", "policies", "resources", "registry_auth", "pool_id",
   "pool_name", "command"}
PatchVmRequest == {"description", "immutable", "resources", "ssh_public_keys", "policies"}
PolicyWriteRequest == {"policies", "secrets"}
RunRequest ==
  {"session_id", "session_idx", "command", "timeout", "time_to_background", "background",
   "queueing_timeout", "end_symbol", "end_after_all_subprocesses", "signal", "policies"}
CreateSessionRequest == {"env", "cwd", "pty", "cols", "rows", "command"}
PatchSessionRequest == {"cols", "rows", "timeout_secs"}
MountCreateRequest == {"filesystem_id", "path"}
SyncRequest == {"op", "path", "writes"}
FilesystemCreateRequest == {"name"}
UpdatePoolRequest == {"name", "resources", "commitments"}
CreateApiKeyRequest == {"name", "scopes"}

(* The alternatives of a fork's source.  The one that gives a Dockerfile is *)
(* published so that it can be refused: the clients build Dockerfiles.      *)
ForkVariants ==
  {{"source_vm_id"}, {"source_vm_name"}, {"source_vm_name", "source_org_id"},
   {"source_vm_name", "source_org_name"}, {"image"}}
(* The alternatives of a pool, with what each requires. *)
CreateManagedPoolRequest ==
  [requires |-> {"type", "platform", "resources"}, optional |-> {"name", "commitments"}]
CreateByocPoolRequest ==
  [requires |-> {"type", "provider", "platform", "resources", "byoc"}, optional |-> {"name", "isolation"}]
CreateSelfHostedPoolRequest == [requires |-> {"type"}, optional |-> {"name", "resources"}]
PoolVariants ==
  "managed" :> CreateManagedPoolRequest @@ "byoc" :> CreateByocPoolRequest
  @@ "self_hosted" :> CreateSelfHostedPoolRequest
CreatePoolRequest == UNION {PoolVariants[t].requires \union PoolVariants[t].optional: t \in DOMAIN PoolVariants}

(* What comes back of a run: it completed, or was cancelled, in time; it *)
(* goes on in the background; or it is reported, in any state.           *)
Null == 1000                                        \* a null exit code
Finished(states, codes) == {[performed |-> TRUE, state |-> st, code |-> c]: st \in states, c \in codes}
CompletedRunResponse == Finished({"completed"}, {0, 7, Null}) \union Finished({"cancelled"}, {Null})
BackgroundRunResponse == [performed |-> TRUE, state |-> "running", code |-> Null]
Run == Finished({"completed"}, {0, 7, Null}) \union Finished({"failed", "cancelled"}, {0, 7, -1, Null})

-----------------------------------------------------------------------------
(* The operations. *)
whoami == Published({}, {200} \union Authenticated)
listRegions == Published({}, {200, 500, 503})
fork == Published({"Idempotency-Key"} \union ForkRequest, {200, 402, 409, 413, 422} \union OnMachine)
listVms ==
  Published(Page \union {"region", "provider", "org_id", "public", "state", "platform",
                   "created_after", "created_before", "pool_id"},
            {200, 400} \union Authenticated)
listOrgRuns ==
  Published({"since", "until", "vm", "vms", "search", "limit", "offset", "lite", "runtime", "endpoint",
             "actions", "status", "status_min", "status_max", "sort", "dir"},
            {200, 400} \union Authenticated)
getVm == Published({}, {200} \union OnMachine)
deleteVm == Published({}, {200, 409} \union OnMachine)
patchVm == Published(PatchVmRequest, {200, 402, 409, 413, 422} \union OnMachine)
getVmPolicies == Published({}, {200, 409, 422} \union OnMachine)
putVmPolicies == Published(PolicyWriteRequest, {200, 409, 413, 422} \union OnMachine)
listRuns ==
  Published(Page \union {"state", "started_after", "started_before", "completed_after"},
            {200, 409} \union OnMachine)
createRun ==
  Published({"Idempotency-Key"} \union RunRequest,
            {200, 202, 402, 409, 413, 422} \union OnMachine)
(* A request that signals waits for no command. *)
controlRun == Published(createRun.accepts \ {"time_to_background", "background"}, createRun.answers)
getRun == Published({}, {200, 409} \union OnMachine)
cancelRun == Published({}, {200, 409, 422} \union OnMachine)
listSessions == Published(Page \union {"state"}, {200, 409} \union OnMachine)
createSession == Published(CreateSessionRequest, {200, 402, 409, 413} \union OnMachine)
getSession == Published({}, {200, 409} \union OnMachine)
deleteSession == Published({}, {200, 409} \union OnMachine)
patchSession == Published(PatchSessionRequest, {200, 409, 413} \union OnMachine)
attachSessionPty ==
  Published({"cols", "rows", "command", "persist", "cancel_ttl_secs", "ticket"},
            {101, 402, 409, 422} \union OnMachine)
listMounts == Published(Page \union {"filesystem_id"}, {200, 409, 422} \union OnMachine)
createMount == Published(MountCreateRequest, {200, 402, 409, 413, 422} \union OnMachine)
deleteMount == Published({}, {200, 409, 422} \union OnMachine)
sync == Published(SyncRequest, {200, 402, 409, 413, 422} \union OnMachine)
listFilesystems == Published(Page \union {"name_prefix"}, {200, 400, 422, 504} \union Authenticated)
createFilesystem ==
  Published(FilesystemCreateRequest,
            {200, 400, 409, 413, 422, 504} \union Authenticated)
getFilesystem == Published({}, {200, 422} \union OnMachine)
deleteFilesystem == Published({}, {200, 422} \union OnMachine)
listPools == Published(Page, {200, 400, 404} \union Authenticated)
createPool == Published(CreatePoolRequest, {201, 400, 404, 409, 422} \union Authenticated)
getPool == Published({}, {200, 404} \union Authenticated)
deletePool == Published({}, {202, 404, 409} \union Authenticated)
updatePool == Published(UpdatePoolRequest, {200, 400, 404, 409, 422} \union Authenticated)
listPoolWorkers == Published({}, {200, 404, 422} \union Authenticated)
listApiKeys == Published({}, {200} \union Authenticated)
createApiKey == Published(CreateApiKeyRequest, {201, 400, 404} \union Authenticated)
revokeApiKey == Published({}, {204, 404} \union Authenticated)

Operations ==
  [whoami |-> whoami, listRegions |-> listRegions, fork |-> fork, listVms |-> listVms,
   listOrgRuns |-> listOrgRuns, getVm |-> getVm, deleteVm |-> deleteVm, patchVm |-> patchVm,
   getVmPolicies |-> getVmPolicies, putVmPolicies |-> putVmPolicies, listRuns |-> listRuns,
   createRun |-> createRun, getRun |-> getRun, cancelRun |-> cancelRun,
   listSessions |-> listSessions, createSession |-> createSession, getSession |-> getSession,
   deleteSession |-> deleteSession, patchSession |-> patchSession,
   attachSessionPty |-> attachSessionPty, listMounts |-> listMounts, createMount |-> createMount,
   deleteMount |-> deleteMount, sync |-> sync, listFilesystems |-> listFilesystems,
   createFilesystem |-> createFilesystem, getFilesystem |-> getFilesystem,
   deleteFilesystem |-> deleteFilesystem, listPools |-> listPools, createPool |-> createPool,
   getPool |-> getPool, deletePool |-> deletePool, updatePool |-> updatePool,
   listPoolWorkers |-> listPoolWorkers, listApiKeys |-> listApiKeys, createApiKey |-> createApiKey,
   revokeApiKey |-> revokeApiKey]
=============================================================================
