------------------------- MODULE CommandCredentials -------------------------
(***************************************************************************)
(* Which credential a command of the CLI uses: resolveAuth of              *)
(* src/src/auth/resolve.ts, loadConfig of config.ts, and the pairing of a  *)
(* workspace with the credential's source in cli/credentialSource.ts.      *)
(*                                                                         *)
(* A key, a server and a workspace are named by the source they come from: *)
(* "env" (KAGURA_API_KEY, KAGURA_MCP_URL, KAGURA_CONTEXT_ID), "file"       *)
(* (.kagura.json), a profile of credentials.json, "flag" (--context-id,    *)
(* --workspace), "default" (the cloud server) and "none".                  *)
(***************************************************************************)
EXTENDS Naturals, FiniteSets

CONSTANTS
    Profiles,           \* of credentials.json
    MaxOutside          \* bound: changes of the sources by others

Named == Profiles \cup {"none"}

ASSUME CredentialAssumption ==
    /\ Profiles \cap {"env", "file", "flag", "default", "none"} = {}
    /\ Profiles # {}
    /\ MaxOutside \in Nat

VARIABLES
    env,        \* the environment of the command
    config,     \* .kagura.json; a set that is empty when there is none
    creds,      \* credentials.json
    outside

sources == <<env, config, creds, outside>>

Environment == [key : BOOLEAN, url : BOOLEAN, context : BOOLEAN,
                profile : Named, strict : BOOLEAN]
ConfigFile == [readable : BOOLEAN, key : BOOLEAN, url : BOOLEAN,
               context : {"none", "auto", "file"}]
CredentialsFile == [default : Profiles, stored : SUBSET Profiles,
                    bound : SUBSET Profiles]   \* with a workspace of its own

SourcesTypeOK ==
    /\ env \in Environment
    /\ config \in SUBSET ConfigFile /\ Cardinality(config) <= 1
    /\ creds \in CredentialsFile
    /\ outside \in Nat

First(a, b) == IF a = "none" THEN b ELSE a
Given(present, source) == IF present THEN source ELSE "none"

-----------------------------------------------------------------------------
(* loadConfig: the file, else a config built from the environment.         *)
Unreadable == \E c \in config : ~c.readable
LoadConfig ==
    IF config = {}
    THEN [key |-> Given(env.key, "env"), url |-> First(Given(env.url, "env"), "default"),
          context |-> Given(env.context, "env"), fallback |-> TRUE]
    ELSE LET c == CHOOSE c \in config : TRUE
         IN  [key |-> Given(c.key, "file"), url |-> Given(c.url, "file"),
              context |-> c.context, fallback |-> FALSE]

Refused == [source |-> "refused", account |-> "none", server |-> "none", workspace |-> "none"]
Static(source, account, server) ==
    [source |-> source, account |-> account, server |-> server, workspace |-> "none"]

(* checkProfileAmbiguity, under KAGURA_REQUIRE_PROFILE.                    *)
Ambiguous == env.profile = "none" /\ env.strict /\ Cardinality(creds.stored) >= 2

(* A named profile that is not there is refused and never passed over.     *)
NamedIsRefused == env.profile # "none"

(* resolveAuth: explicit key, environment, profile, file, in this order.   *)
ResolveAuth(key, url, cfg) ==
    LET profile == First(env.profile, creds.default)
    IN  IF key # "none" THEN Static("explicit", key, First(url, "default"))
        ELSE IF env.key
             THEN Static("env", "env", First(url, First(Given(env.url, "env"), "default")))
        ELSE IF profile \in creds.stored
             THEN IF Ambiguous THEN Refused
                  ELSE [source |-> "oauth", account |-> profile, server |-> First(url, profile),
                        workspace |-> Given(profile \in creds.bound, profile)]
        ELSE IF NamedIsRefused \/ cfg.key = "none" THEN Refused
        ELSE Static("config", cfg.key, First(url, First(cfg.url, "default")))

ProfilesOwn == Given(creds.default \in creds.bound, creds.default)
(* A key without a workspace gets none, not the default profile's.         *)
Unpaired == "none"

(* resolveWorkspaceFromSource; "none" is its refusal.                      *)
WorkspaceFromSource(auth, cfg, flag) ==
    IF flag = "flag" THEN "flag"
    ELSE IF auth.source = "oauth" THEN auth.workspace
    ELSE IF auth.source = "config" /\ cfg.context = "file" THEN "file"
    ELSE Unpaired

(* mcpOptions: what a data command passes to the MCP client.               *)
McpOptions(cfg) ==
    IF cfg.fallback THEN [key |-> "none", url |-> "none"]
    ELSE [key |-> cfg.key, url |-> cfg.url]

-----------------------------------------------------------------------------
(* pairWorkspaceCredential and what it may refuse: one synchronous step.   *)
PairWorkspaceCredential(flag) ==
    IF Unreadable THEN Refused
    ELSE LET cfg == LoadConfig
             auth == ResolveAuth("none", "none", cfg)
             workspace == WorkspaceFromSource(auth, cfg, flag)
         IN  IF auth.source = "refused" \/ workspace = "none" THEN Refused
             ELSE [auth EXCEPT !.workspace = workspace]

(* resolveCliAuth alone: `resource import`, keyed by its resource.         *)
CliAuth == IF Unreadable THEN Refused ELSE ResolveAuth("none", "none", LoadConfig)

(* runClientCommand: the context comes from the flag or the config.        *)
DataCredential(flag) ==
    IF Unreadable THEN Refused
    ELSE LET cfg == LoadConfig
             context == First(flag, cfg.context)
             auth == ResolveAuth(McpOptions(cfg).key, McpOptions(cfg).url, cfg)
         IN  IF context = "none" \/ auth.source = "refused" THEN Refused
             ELSE [auth EXCEPT !.workspace = context]

(* new KaguraClient({}): the chain run again; the file is read only when   *)
(* nothing before it supplies a credential.                                *)
ChainAgain ==
    ResolveAuth("none", "none", IF Unreadable THEN [key |-> "none"] ELSE LoadConfig)

(* auth use, auth login, auth logout and setup, by another process.        *)
ChangeSources ==
    /\ outside < MaxOutside
    /\ outside' = outside + 1
    /\ \/ \E p \in creds.stored \ {creds.default} : creds' = [creds EXCEPT !.default = p]
          /\ UNCHANGED config
       \/ \E p \in Profiles \ creds.stored :
             creds' = [creds EXCEPT !.stored = @ \cup {p}, !.bound = @ \cup {p},
                                    !.default = IF @ \in creds.stored THEN @ ELSE p]
          /\ UNCHANGED config
       \/ \E p \in creds.stored :
             LET left == creds.stored \ {p}
             IN  \E next \in IF left = {} THEN {creds.default}
                             ELSE IF p = creds.default THEN left ELSE {creds.default} :
                    creds' = [default |-> next, stored |-> left, bound |-> creds.bound \ {p}]
          /\ UNCHANGED config
       \/ /\ config' = {[readable |-> TRUE, key |-> TRUE, url |-> TRUE, context |-> "file"]}
          /\ UNCHANGED creds
    /\ UNCHANGED env
=============================================================================
