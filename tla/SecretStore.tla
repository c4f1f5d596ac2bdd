---------------------------- MODULE SecretStore ----------------------------
(***************************************************************************)
(* One secret of the zero-knowledge store: the commands of                 *)
(* cli/commands/secret.ts over secrets/client.ts, which read the secret,   *)
(* read the registered public keys and write a new version in requests of  *)
(* their own, and the custody of a private key by secrets/keyManager.ts.   *)
(*                                                                         *)
(* A key pair is a member of Keys and stands for its fingerprint and the   *)
(* id of its row too; the row of a key may show another public key.  A     *)
(* ciphertext is the value with the keys that can open it.                 *)
(***************************************************************************)
EXTENDS Naturals, Sequences, FiniteSets, SequencesExt

CONSTANTS
    Keys, Values,
    Commands,
    Enrollers,          \* callers of one KeyManager
    None,               \* no key
    MaxVersions,        \* bound: versions ever stored
    MaxRegistered       \* bound: changes of the registry by others

ASSUME SecretAssumption ==
    /\ None \notin Keys /\ Values # {}
    /\ MaxVersions \in Nat /\ MaxRegistered \in Nat

VARIABLES
    row,        \* the registry: the status of each key
    shown,      \* and the public key its row shows
    versions,   \* of the secret; empty when there is none
    grants,     \* keys whose owners the server lets fetch it
    approved,   \* history: keys an owner has approved
    written,    \* history: how many versions were ever stored
    changed,
    cmd,
    custody, enrolled, enroll

registry == <<row, shown, approved, changed>>
secret == <<versions, grants, written>>
keyStore == <<custody, enrolled, enroll>>
vars == <<registry, secret, cmd, keyStore>>

Version == [value : Values, box : SUBSET Keys, snapshot : SUBSET Keys]
Command == [pc : {"idle", "fetch", "list", "put", "done"},
            op : {"none", "put", "get", "grant", "rotate", "revoke", "delete"},
            me : Keys,              \* the identity of the command
            to : SUBSET Keys,       \* --to; empty is yourself
            value : Values,
            base : Nat,             \* the version that was fetched
            found : SUBSET Keys,    \* its recipients_snapshot
            recipients : SUBSET Keys,
            result : {"none", "ok", "failed"}]

TypeOK ==
    /\ row \in [Keys -> {"none", "pending", "active", "revoked"}]
    /\ shown \in [Keys -> Keys]
    /\ versions \in Seq(Version)
    /\ grants \subseteq Keys /\ approved \subseteq Keys
    /\ written \in Nat /\ changed \in Nat
    /\ cmd \in [Commands -> Command]
    /\ custody \in Keys \cup {None} /\ enrolled \subseteq Keys
    /\ enroll \in [Enrollers -> {"idle", "absent"}]

Idle(me) ==
    [pc |-> "idle", op |-> "none", me |-> me, to |-> {}, value |-> CHOOSE v \in Values : TRUE,
     base |-> 0, found |-> {}, recipients |-> {}, result |-> "none"]

Init ==
    /\ row \in [Keys -> {"none", "active", "pending"}]
    /\ approved = {k \in Keys : row[k] = "active"}
    /\ \E k, l \in Keys : shown = [i \in Keys |-> IF i = k THEN l ELSE i]
    /\ versions = <<>> /\ grants = {} /\ written = 0 /\ changed = 0
    /\ \E me \in [Commands -> Keys] : cmd = [c \in Commands |-> Idle(me[c])]
    /\ custody = None /\ enrolled = {} /\ enroll = [e \in Enrollers |-> "idle"]

-----------------------------------------------------------------------------
Become(c, new) == cmd' = [cmd EXCEPT ![c] = new]
End(c, result) == Become(c, [cmd[c] EXCEPT !.pc = "done", !.result = result])

(* put, get, grant, rotate, revoke and delete; the last one was confirmed. *)
Start(c) ==
    /\ cmd[c].pc = "idle"
    /\ \E op \in {"put", "get", "grant", "rotate", "revoke", "delete"},
          to \in SUBSET Keys, value \in Values :
          /\ op \in {"grant", "revoke"} => Cardinality(to) = 1
          /\ op \notin {"put", "grant", "revoke"} => to = {}
          /\ op \notin {"put", "rotate"} => value = cmd[c].value
          /\ Become(c, [cmd[c] EXCEPT !.op = op, !.to = to, !.value = value,
                !.pc = CASE op = "put" -> "list"
                         [] op \in {"revoke", "delete"} -> "put"
                         [] OTHER -> "fetch"])
    /\ UNCHANGED <<registry, secret, keyStore>>

(* fetchSecret: 403 without a grant, for a secret that is not there too.   *)
(* After a revocation the server may list the old recipients or those      *)
(* left.  Only get and grant decrypt what was fetched.                     *)
Fetch(c) ==
    /\ cmd[c].pc = "fetch"
    /\ \/ /\ versions = <<>> \/ cmd[c].me \notin grants
          /\ End(c, "failed")
       \/ /\ versions # <<>> /\ cmd[c].me \in grants
          /\ LET current == Last(versions)
             IN  \/ /\ cmd[c].op # "rotate" /\ cmd[c].me \notin current.box
                    /\ End(c, "failed")
                 \/ /\ cmd[c].op = "get" /\ cmd[c].me \in current.box
                    /\ Become(c, [cmd[c] EXCEPT !.pc = "done", !.result = "ok",
                                                !.value = current.value])
                 \/ /\ cmd[c].op = "grant" => cmd[c].me \in current.box
                    /\ cmd[c].op \in {"grant", "rotate"}
                    /\ \E found \in {current.snapshot, current.snapshot \cap grants} :
                          Become(c, [cmd[c] EXCEPT !.pc = "list", !.base = written,
                             !.found = found,
                             !.value = IF cmd[c].op = "grant" THEN current.value ELSE @])
    /\ UNCHANGED <<registry, secret, keyStore>>

Listed == {k \in Keys : row[k] # "none"}

ByFingerprintActive(found) == {k \in found : row[k] = "active"}
(* byFingerprint: the rows of a snapshot, whatever has become of them.     *)
ByFingerprint(found) == found \cap Listed

(* The rows that show one's own key: put without --to takes the first.     *)
Mine(key) == {k \in Listed : shown[k] = key}

(* What put, grant and rotate may take for their recipients.  An unknown   *)
(* id refuses them, and so does a put that finds no row of its own.        *)
Recipients(me) ==
    CASE me.op = "put" -> IF me.to # {} THEN {me.to}
                          ELSE IF Mine(me.me) = {} THEN {{}}
                          ELSE {{k} : k \in Mine(me.me)}
      [] me.op = "grant" -> {ByFingerprint(me.found) \cup me.to}
      [] me.op = "rotate" -> {ByFingerprint(me.found)}

ConsistentUnchecked(recipients) == recipients # {} /\ \A k \in recipients : row[k] = "active"
(* putSecretForRecipients, before anything is encrypted or sent.           *)
Consistent(recipients) ==
    recipients # {} /\ \A k \in recipients : row[k] = "active" /\ shown[k] = k

List(c) ==
    /\ cmd[c].pc = "list"
    /\ \E recipients \in Recipients(cmd[c]) :
          \/ /\ recipients \subseteq Listed /\ Consistent(recipients)
             /\ Become(c, [cmd[c] EXCEPT !.pc = "put", !.recipients = recipients])
          \/ /\ ~(recipients \subseteq Listed /\ Consistent(recipients))
             /\ End(c, "failed")
    /\ UNCHANGED <<registry, secret, keyStore>>

(* putSecret; whether the server looks at the status again is its own      *)
(* affair.  Nothing says which version the new one was made from.          *)
Put(c) ==
    /\ cmd[c].pc = "put" /\ cmd[c].op \in {"put", "grant", "rotate"}
    /\ \/ /\ written < MaxVersions
          /\ versions' = Append(versions,
                [value |-> cmd[c].value, snapshot |-> cmd[c].recipients,
                 box |-> {shown[k] : k \in cmd[c].recipients}])
          /\ grants' = cmd[c].recipients
          /\ written' = written + 1
          /\ End(c, "ok") \/ End(c, "failed")     \* the answer may be lost
       \/ /\ \/ written = MaxVersions
             \/ \E k \in cmd[c].recipients : row[k] # "active"
          /\ End(c, "failed")
          /\ UNCHANGED secret
    /\ UNCHANGED <<registry, keyStore>>

RevokeGrant(c) ==
    /\ cmd[c].pc = "put" /\ cmd[c].op = "revoke"
    /\ grants' = grants \ cmd[c].to
    /\ End(c, "ok")
    /\ UNCHANGED <<registry, versions, written, keyStore>>

DeleteSecret(c) ==
    /\ cmd[c].pc = "put" /\ cmd[c].op = "delete"
    /\ versions' = <<>> /\ grants' = {}
    /\ End(c, "ok")
    /\ UNCHANGED <<registry, written, keyStore>>

-----------------------------------------------------------------------------
(* The registry: keygen, approve and the revocation of a public key.       *)
Change == changed < MaxRegistered /\ changed' = changed + 1

RegisterPubkey(k) ==
    /\ row[k] = "none" /\ row' = [row EXCEPT ![k] = "pending"]
    /\ Change /\ UNCHANGED <<shown, approved, secret, cmd, keyStore>>

ApprovePubkey(k) ==
    /\ row[k] = "pending" /\ row' = [row EXCEPT ![k] = "active"]
    /\ approved' = approved \cup {k}
    /\ Change /\ UNCHANGED <<shown, secret, cmd, keyStore>>

RevokePubkey(k) ==
    /\ row[k] = "active" /\ row' = [row EXCEPT ![k] = "revoked"]
    /\ Change /\ UNCHANGED <<shown, approved, secret, cmd, keyStore>>

-----------------------------------------------------------------------------
(* KeyManager.enroll: the look, and after an await the key is stored.      *)
HasKey(e) ==
    /\ enroll[e] = "idle" /\ custody = None
    /\ enroll' = [enroll EXCEPT ![e] = "absent"]
    /\ UNCHANGED <<registry, secret, cmd, custody, enrolled>>

StoreKey(e) ==
    /\ enroll[e] = "absent"
    /\ \E k \in Keys \ enrolled : custody' = k /\ enrolled' = enrolled \cup {k}
    /\ enroll' = [enroll EXCEPT ![e] = "idle"]
    /\ UNCHANGED <<registry, secret, cmd>>

DeleteKey(e) ==
    /\ enroll[e] = "idle" /\ custody # None
    /\ custody' = None
    /\ UNCHANGED <<registry, secret, cmd, enrolled, enroll>>

CommandStep(c) ==
    Start(c) \/ Fetch(c) \/ List(c) \/ Put(c) \/ RevokeGrant(c) \/ DeleteSecret(c)

AllDone == (\A c \in Commands : cmd[c].pc = "done") /\ UNCHANGED vars

Next ==
    \/ \E c \in Commands : CommandStep(c)
    \/ \E k \in Keys : RegisterPubkey(k) \/ ApprovePubkey(k) \/ RevokePubkey(k)
    \/ \E e \in Enrollers : HasKey(e) \/ StoreKey(e) \/ DeleteKey(e)
    \/ AllDone

Spec == Init /\ [][Next]_vars

-----------------------------------------------------------------------------
(* Who can open a stored version is who it was granted to, though a row of *)
(* the registry may show another's public key (secrets/client.ts:252-258). *)
ReadableByGrants == \A i \in DOMAIN versions : versions[i].box = versions[i].snapshot

(* No version is ever encrypted to a key that no owner has approved        *)
(* (secrets/client.ts:275-280), whatever the registry was when the         *)
(* recipients were chosen.                                                 *)
OnlyApproved == \A i \in DOMAIN versions : versions[i].box \subseteq approved

(* Who can open a version, at the time it is stored and ever after, is who *)
(* an owner let in: granted, and with a key that was approved.             *)
RightReaders == ReadableByGrants /\ OnlyApproved

(* A grant or a rotation that replaces the version it fetched takes every  *)
(* reader along who still has a grant, those whose key was revoked         *)
(* included (it is refused instead), lets nobody in but the key granted,   *)
(* and a grant keeps the value (secret.ts:304-310 and 330-337).            *)
CarriesReadersOver ==
    [][\A c \in Commands :
          (/\ cmd[c].op \in {"grant", "rotate"} /\ cmd[c] # cmd'[c]
           /\ cmd[c].base = written /\ written' # written /\ versions # <<>>)
          => LET old == Last(versions)  new == Last(versions')
             IN  /\ old.box \cap grants \subseteq new.box
                 /\ new.box \subseteq old.box \cup cmd[c].to
                 /\ cmd[c].op = "grant" => new.value = old.value]_vars

(* enroll() never replaces a key: "overwriting it would silently orphan    *)
(* every ciphertext encrypted to the old recipient" (keyManager.ts:93-95). *)
KeyKept == [][custody # None => custody' \in {custody, None}]_custody
=============================================================================
