--------------------------- MODULE SecretStoreProofs ---------------------------
(***************************************************************************)
(* What the commands of the secret store promise, for any number of keys,  *)
(* commands and versions.                                                  *)
(***************************************************************************)
EXTENDS SecretStore, TLAPS

Rows == {"none", "pending", "active", "revoked"}

\* The operations that write a version.
Writers == {"put", "grant", "rotate"}

Types ==
  /\ row \in [Keys -> Rows] /\ shown \in [Keys -> Keys]
  /\ versions \in Seq(Version) /\ grants \subseteq Keys /\ approved \subseteq Keys
  /\ written \in Nat /\ cmd \in [Commands -> Command]

\* An approved key never leaves the registry, and nobody else's key is active.
Registry ==
  /\ \A k \in Keys : row[k] = "active" => k \in approved
  /\ \A k \in approved : row[k] # "none"

Versions == \A i \in DOMAIN versions :
              versions[i].box = versions[i].snapshot /\ versions[i].box \subseteq approved

\* What a command carries from what it read to what it writes.
Carried(c) ==
  /\ cmd[c].found \subseteq approved
  /\ cmd[c].op = "rotate" => cmd[c].to = {}
  /\ cmd[c].pc \in {"list", "put"} /\ cmd[c].op \in {"grant", "rotate"} =>
       /\ cmd[c].base <= written
       /\ cmd[c].base = written /\ versions # <<>> =>
            /\ cmd[c].found \subseteq Last(versions).snapshot
            /\ Last(versions).snapshot \cap grants \subseteq cmd[c].found
            /\ cmd[c].op = "grant" => cmd[c].value = Last(versions).value
  /\ cmd[c].pc = "put" /\ cmd[c].op \in Writers =>
       /\ cmd[c].recipients \subseteq approved
       /\ \A k \in cmd[c].recipients : shown[k] = k
       /\ cmd[c].op # "put" =>
            cmd[c].found \subseteq cmd[c].recipients /\ cmd[c].recipients \subseteq cmd[c].found \cup cmd[c].to

SecretInv == Types /\ Registry /\ Versions /\ \A c \in Commands : Carried(c)

LEMMA SecretInitially == Init => SecretInv
  <1> SUFFICES ASSUME Init PROVE SecretInv
    OBVIOUS
  <1>1. PICK me \in [Commands -> Keys] : cmd = [c \in Commands |-> Idle(me[c])]
    BY DEF Init
  <1>2. (CHOOSE v \in Values : TRUE) \in Values
    BY SecretAssumption
  <1>3. \A c \in Commands : cmd[c] = Idle(me[c]) /\ me[c] \in Keys
    BY <1>1
  <1>4. \A k \in Keys : Idle(k) \in Command
    BY <1>2 DEF Idle, Command
  <1>5. Types
    <2>1. cmd \in [Commands -> Command]
      BY <1>1, <1>3, <1>4
    <2>2. shown \in [Keys -> Keys]
      BY DEF Init
    <2> QED BY <2>1, <2>2 DEF Init, Types, Rows
  <1>6. Registry
    <2>1. approved = {k \in Keys : row[k] = "active"}
      BY DEF Init
    <2>2. \A k \in approved : row[k] # "none"
      BY <2>1
    <2> QED BY <2>1, <2>2 DEF Registry
  <1>7. \A c \in Commands : Carried(c)
    <2>1. \A c \in Commands : cmd[c].found = {} /\ cmd[c].op = "none" /\ cmd[c].pc = "idle"
      <3>1. \A k : Idle(k).found = {} /\ Idle(k).op = "none" /\ Idle(k).pc = "idle"
        BY DEF Idle
      <3> QED BY <1>3, <3>1
    <2> QED BY <2>1 DEF Carried
  <1> QED BY <1>5, <1>6, <1>7 DEF Init, SecretInv, Versions

\* One command moves on; the secret and the registry stay as they are.
LEMMA CommandKeeps ==
  ASSUME SecretInv, NEW c \in Commands, NEW new \in Command, Become(c, new),
         UNCHANGED <<row, shown, approved, versions, grants, written>>, Carried(c)'
  PROVE  SecretInv'
  <1>1. cmd' \in [Commands -> Command] /\ \A d \in Commands \ {c} : cmd'[d] = cmd[d]
    BY DEF Become, SecretInv, Types
  <1>2. \A d \in Commands \ {c} : Carried(d)'
    BY <1>1 DEF SecretInv, Carried
  <1>3. Registry' /\ Versions'
    BY DEF SecretInv, Registry, Versions
  <1> QED BY <1>1, <1>2, <1>3 DEF SecretInv, Types

LEMMA EndKeeps ==
  ASSUME SecretInv, NEW c \in Commands, NEW result \in {"ok", "failed"}, End(c, result),
         UNCHANGED <<row, shown, approved, versions, grants, written>>
  PROVE  SecretInv'
  <1> DEFINE new == [cmd[c] EXCEPT !.pc = "done", !.result = result]
  <1>1. cmd[c] \in Command /\ Carried(c) /\ cmd \in [Commands -> Command]
    BY DEF SecretInv, Types
  <1>2. new \in Command /\ new.pc = "done" /\ new.op = cmd[c].op /\ new.to = cmd[c].to
        /\ new.found = cmd[c].found
    BY <1>1 DEF Command
  <1>3. Become(c, new)
    BY DEF End
  <1> HIDE DEF new
  <1>4. cmd'[c] = new
    BY <1>1, <1>3 DEF Become
  <1>5. Carried(c)'
    BY <1>1, <1>2, <1>4 DEF Carried
  <1> QED BY <1>2, <1>3, <1>5, CommandKeeps

LEMMA StartKeeps ==
  ASSUME SecretInv, NEW c \in Commands, Start(c)
  PROVE  SecretInv'
  <1>1. cmd[c] \in Command /\ Carried(c) /\ cmd \in [Commands -> Command]
    BY DEF SecretInv, Types
  <1>2. PICK op \in {"put", "get", "grant", "rotate", "revoke", "delete"},
             to \in SUBSET Keys, value \in Values :
          /\ op \notin {"put", "grant", "revoke"} => to = {}
          /\ Become(c, [cmd[c] EXCEPT !.op = op, !.to = to, !.value = value,
                !.pc = CASE op = "put" -> "list"
                         [] op \in {"revoke", "delete"} -> "put"
                         [] OTHER -> "fetch"])
    BY DEF Start
  <1> DEFINE pc == CASE op = "put" -> "list" [] op \in {"revoke", "delete"} -> "put"
                     [] OTHER -> "fetch"
             new == [cmd[c] EXCEPT !.op = op, !.to = to, !.value = value, !.pc = pc]
  <1>3. /\ pc \in {"list", "put", "fetch"}
        /\ pc = "list" => op = "put"
        /\ pc = "put" => op \in {"revoke", "delete"}
    OBVIOUS
  <1> HIDE DEF pc
  <1>4. new \in Command /\ new.pc = pc /\ new.op = op /\ new.to = to /\ new.found = cmd[c].found
    BY <1>1, <1>3 DEF Command
  <1>5. Become(c, new)
    BY <1>2 DEF pc
  <1> HIDE DEF new
  <1>6. cmd'[c] = new
    BY <1>1, <1>5 DEF Become
  <1>7. UNCHANGED <<row, shown, approved, versions, grants, written>>
    BY DEF Start, registry, secret
  <1>8. Carried(c)'
    BY <1>1, <1>2, <1>3, <1>4, <1>6, <1>7 DEF Carried, Writers
  <1> QED BY <1>4, <1>5, <1>7, <1>8, CommandKeeps

LEMMA LastVersion ==
  ASSUME SecretInv, versions # <<>>
  PROVE  /\ Last(versions) \in Version /\ Last(versions).box = Last(versions).snapshot
         /\ Last(versions).snapshot \subseteq approved
  <1>1. versions \in Seq(Version) /\ Len(versions) \in DOMAIN versions
    BY DEF SecretInv, Types
  <1>2. versions[Len(versions)] \in Version /\ Versions
    BY <1>1 DEF SecretInv
  <1>3. /\ versions[Len(versions)].box = versions[Len(versions)].snapshot
        /\ versions[Len(versions)].box \subseteq approved
    BY <1>1, <1>2 DEF Versions
  <1> QED BY <1>2, <1>3 DEF Last

LEMMA FetchKeeps ==
  ASSUME SecretInv, NEW c \in Commands, Fetch(c)
  PROVE  SecretInv'
  <1>1. cmd[c] \in Command /\ Carried(c) /\ cmd \in [Commands -> Command] /\ written \in Nat
    BY DEF SecretInv, Types
  <1>2. UNCHANGED <<row, shown, approved, versions, grants, written>>
    BY DEF Fetch, registry, secret
  <1>3. CASE End(c, "failed")
    BY <1>2, <1>3, EndKeeps
  <1>4. CASE /\ versions # <<>> /\ cmd[c].op = "get"
             /\ Become(c, [cmd[c] EXCEPT !.pc = "done", !.result = "ok",
                                         !.value = Last(versions).value])
    <2> DEFINE new == [cmd[c] EXCEPT !.pc = "done", !.result = "ok",
                                     !.value = Last(versions).value]
    <2>1. Last(versions).value \in Values
      BY <1>4, LastVersion DEF Version
    <2>2. new \in Command /\ new.pc = "done" /\ new.op = cmd[c].op /\ new.to = cmd[c].to
          /\ new.found = cmd[c].found
      BY <1>1, <2>1 DEF Command
    <2> HIDE DEF new
    <2>3. cmd'[c] = new /\ Become(c, new)
      BY <1>1, <1>4 DEF Become, new
    <2>4. Carried(c)'
      BY <1>1, <1>2, <2>2, <2>3 DEF Carried
    <2> QED BY <1>2, <2>2, <2>3, <2>4, CommandKeeps
  <1>5. CASE /\ versions # <<>> /\ cmd[c].op \in {"grant", "rotate"}
             /\ \E found \in {Last(versions).snapshot, Last(versions).snapshot \cap grants} :
                   Become(c, [cmd[c] EXCEPT !.pc = "list", !.base = written, !.found = found,
                      !.value = IF cmd[c].op = "grant" THEN Last(versions).value ELSE @])
    <2>1. PICK found \in {Last(versions).snapshot, Last(versions).snapshot \cap grants} :
                   Become(c, [cmd[c] EXCEPT !.pc = "list", !.base = written, !.found = found,
                      !.value = IF cmd[c].op = "grant" THEN Last(versions).value ELSE @])
      BY <1>5
    <2> DEFINE value == IF cmd[c].op = "grant" THEN Last(versions).value ELSE cmd[c].value
               new == [cmd[c] EXCEPT !.pc = "list", !.base = written, !.found = found,
                                     !.value = value]
    <2>2. /\ Last(versions).value \in Values /\ Last(versions).snapshot \subseteq Keys
          /\ Last(versions).snapshot \subseteq approved
      BY <1>5, LastVersion DEF Version
    <2>3. /\ value \in Values /\ found \subseteq Keys /\ found \subseteq approved
          /\ found \subseteq Last(versions).snapshot
          /\ Last(versions).snapshot \cap grants \subseteq found
      BY <1>1, <2>2 DEF Command
    <2>4. cmd[c].op = "grant" => value = Last(versions).value
      OBVIOUS
    <2>5. cmd'[c] = new /\ Become(c, new)
      BY <1>1, <2>1 DEF Become
    <2> HIDE DEF value
    <2>6. new \in Command /\ new.pc = "list" /\ new.op = cmd[c].op /\ new.to = cmd[c].to
          /\ new.found = found /\ new.base = written /\ new.value = value
      BY <1>1, <2>3 DEF Command
    <2> HIDE DEF new
    <2>7. Carried(c)'
      BY <1>1, <1>2, <2>3, <2>4, <2>5, <2>6 DEF Carried
    <2> QED BY <1>2, <2>5, <2>6, <2>7, CommandKeeps
  <1> QED BY <1>3, <1>4, <1>5 DEF Fetch

LEMMA ListKeeps ==
  ASSUME SecretInv, NEW c \in Commands, List(c)
  PROVE  SecretInv'
  <1>1. cmd[c] \in Command /\ Carried(c) /\ cmd \in [Commands -> Command] /\ Registry
    BY DEF SecretInv, Types
  <1>2. UNCHANGED <<row, shown, approved, versions, grants, written>> /\ cmd[c].pc = "list"
    BY DEF List, registry, secret
  <1>3. CASE End(c, "failed")
    BY <1>2, <1>3, EndKeeps
  <1>4. CASE ~End(c, "failed")
    <2>0. PICK recipients \in Recipients(cmd[c]) :
             /\ recipients \subseteq Listed /\ Consistent(recipients)
             /\ Become(c, [cmd[c] EXCEPT !.pc = "put", !.recipients = recipients])
      BY <1>4 DEF List
    <2> DEFINE new == [cmd[c] EXCEPT !.pc = "put", !.recipients = recipients]
    <2>1. recipients \subseteq Listed /\ Consistent(recipients) /\ Become(c, new)
      BY <2>0
    <2>2. recipients \subseteq Keys /\ recipients \subseteq approved
          /\ \A k \in recipients : shown[k] = k
      BY <1>1, <2>1 DEF Listed, Consistent, Registry
    <2>3. ASSUME cmd[c].op \in {"grant", "rotate"}
          PROVE  cmd[c].found \subseteq recipients /\ recipients \subseteq cmd[c].found \cup cmd[c].to
      <3>1. cmd[c].found \subseteq Listed
        BY <1>1 DEF Carried, Listed, Registry, Command
      <3>2. cmd[c].op = "rotate" => recipients = cmd[c].found
        BY <2>0, <3>1 DEF Recipients, ByFingerprint
      <3>3. cmd[c].op = "grant" => recipients = cmd[c].found \cup cmd[c].to
        BY <2>0, <3>1 DEF Recipients, ByFingerprint
      <3> QED BY <2>3, <3>2, <3>3
    <2>4. new \in Command /\ new.pc = "put" /\ new.op = cmd[c].op /\ new.to = cmd[c].to
          /\ new.found = cmd[c].found /\ new.base = cmd[c].base /\ new.value = cmd[c].value
          /\ new.recipients = recipients
      BY <1>1, <2>2 DEF Command
    <2>5. cmd'[c] = new
      BY <1>1, <2>1 DEF Become
    <2> HIDE DEF new
    <2>6. Carried(c)'
      BY <1>1, <1>2, <2>2, <2>3, <2>4, <2>5 DEF Carried, Writers
    <2> QED BY <1>2, <2>1, <2>4, <2>6, CommandKeeps
  <1> QED BY <1>3, <1>4

\* The version a command writes, and the one it replaces.
LEMMA PutWrites ==
  ASSUME SecretInv, NEW c \in Commands, Put(c), written' # written
  PROVE  /\ cmd[c].pc = "put" /\ cmd[c].op \in Writers
         /\ written' = written + 1 /\ grants' = cmd[c].recipients
         /\ Last(versions') = [value |-> cmd[c].value, snapshot |-> cmd[c].recipients,
                               box |-> cmd[c].recipients]
         /\ versions' \in Seq(Version)
         /\ \A i \in DOMAIN versions' :
              versions'[i] = Last(versions') \/ (i \in DOMAIN versions /\ versions'[i] = versions[i])
         /\ \E result \in {"ok", "failed"} : End(c, result)
  <1> DEFINE new == [value |-> cmd[c].value, snapshot |-> cmd[c].recipients,
                     box |-> {shown[k] : k \in cmd[c].recipients}]
  <1>1. /\ cmd[c] \in Command /\ Carried(c) /\ versions \in Seq(Version)
        /\ cmd[c].pc = "put" /\ cmd[c].op \in Writers
    BY DEF SecretInv, Types, Put, Writers
  <1>2. /\ versions' = Append(versions, new) /\ grants' = cmd[c].recipients
        /\ written' = written + 1 /\ (End(c, "ok") \/ End(c, "failed"))
    BY DEF Put, secret
  <1>3. {shown[k] : k \in cmd[c].recipients} = cmd[c].recipients
    BY <1>1 DEF Carried
  <1>4. new = [value |-> cmd[c].value, snapshot |-> cmd[c].recipients, box |-> cmd[c].recipients]
    BY <1>3
  <1>5. new \in Version
    BY <1>1, <1>4 DEF Version, Command
  <1> HIDE DEF new
  <1>6. /\ versions' \in Seq(Version) /\ Len(versions') = Len(versions) + 1
        /\ versions'[Len(versions')] = new
        /\ \A i \in 1..Len(versions) : versions'[i] = versions[i]
    BY <1>1, <1>2, <1>5
  <1>7. Last(versions') = new
    BY <1>6 DEF Last
  <1>8. \A i \in DOMAIN versions' :
          versions'[i] = Last(versions') \/ (i \in DOMAIN versions /\ versions'[i] = versions[i])
    <2>1. Len(versions) \in Nat /\ DOMAIN versions = 1..Len(versions) /\ DOMAIN versions' = 1..(Len(versions) + 1)
      BY <1>1, <1>6
    <2>2. ASSUME NEW i \in 1..(Len(versions) + 1) PROVE i = Len(versions) + 1 \/ i \in 1..Len(versions)
      BY <2>1
    <2>3. versions'[Len(versions) + 1] = Last(versions')
      BY <1>6, <1>7
    <2>4. ASSUME NEW i \in 1..(Len(versions) + 1)
          PROVE  versions'[i] = Last(versions') \/ (i \in DOMAIN versions /\ versions'[i] = versions[i])
      <3>1. CASE i = Len(versions) + 1
        BY <2>3, <3>1
      <3>2. CASE i \in 1..Len(versions)
        BY <1>6, <2>1, <3>2
      <3> QED BY <2>2, <3>1, <3>2
    <2> QED BY <2>1, <2>4
  <1> QED BY <1>1, <1>2, <1>4, <1>6, <1>7, <1>8

LEMMA PutKeeps ==
  ASSUME SecretInv, NEW c \in Commands, Put(c)
  PROVE  SecretInv'
  <1>1. UNCHANGED <<row, shown, approved>>
    BY DEF Put, registry
  <1>2. /\ cmd[c] \in Command /\ cmd \in [Commands -> Command] /\ written \in Nat
        /\ \A d \in Commands : Carried(d) /\ cmd[d] \in Command
    BY DEF SecretInv, Types
  <1>3. CASE written' = written
    <2>1. UNCHANGED <<versions, grants, written>> /\ End(c, "failed")
      BY <1>2, <1>3 DEF Put, secret
    <2> QED BY <1>1, <2>1, EndKeeps
  <1>4. CASE written' # written
    <2>1. PICK result \in {"ok", "failed"} : End(c, result)
      BY <1>4, PutWrites
    <2> DEFINE new == [cmd[c] EXCEPT !.pc = "done", !.result = result]
    <2>2. /\ cmd' = [cmd EXCEPT ![c] = new]
          /\ new \in Command /\ new.pc = "done" /\ new.op = cmd[c].op /\ new.to = cmd[c].to
          /\ new.found = cmd[c].found
      BY <1>2, <2>1 DEF End, Become, Command
    <2> HIDE DEF new
    <2>3. cmd' \in [Commands -> Command] /\ cmd'[c] = new
          /\ \A d \in Commands \ {c} : cmd'[d] = cmd[d]
      BY <1>2, <2>2
    <2>4. Carried(c)'
      BY <1>1, <1>2, <2>2, <2>3 DEF Carried
    <2>5. ASSUME NEW d \in Commands \ {c} PROVE Carried(d)'
      <3>1. cmd[d].base \in Nat /\ written' = written + 1
        BY <1>2, <1>4, PutWrites DEF Command
      <3> QED BY <1>1, <1>2, <2>3, <3>1 DEF Carried
    <2>6. /\ Last(versions').box = Last(versions').snapshot
          /\ Last(versions').box \subseteq approved
          /\ versions' \in Seq(Version) /\ grants' \subseteq Keys /\ written' \in Nat
      BY <1>2, <1>4, PutWrites DEF Carried, Command
    <2>7. Versions'
      BY <1>1, <1>4, <2>6, PutWrites DEF SecretInv, Versions
    <2> QED BY <1>1, <2>3, <2>4, <2>5, <2>6, <2>7 DEF SecretInv, Types, Registry
  <1> QED BY <1>3, <1>4

\* The secret is deleted, or a grant is taken back.
LEMMA WithdrawKeeps ==
  ASSUME SecretInv, NEW c \in Commands, RevokeGrant(c) \/ DeleteSecret(c)
  PROVE  SecretInv'
  <1>1. /\ UNCHANGED <<row, shown, approved, written>> /\ End(c, "ok") /\ grants' \subseteq grants
        /\ versions' = versions \/ versions' = <<>>
    BY DEF RevokeGrant, DeleteSecret, registry
  <1>2. /\ cmd[c] \in Command /\ cmd \in [Commands -> Command]
        /\ \A d \in Commands : Carried(d)
    BY DEF SecretInv, Types
  <1> DEFINE new == [cmd[c] EXCEPT !.pc = "done", !.result = "ok"]
  <1>3. /\ cmd' = [cmd EXCEPT ![c] = new]
        /\ new \in Command /\ new.pc = "done" /\ new.op = cmd[c].op /\ new.to = cmd[c].to
        /\ new.found = cmd[c].found
    BY <1>1, <1>2 DEF End, Become, Command
  <1> HIDE DEF new
  <1>4. cmd' \in [Commands -> Command] /\ cmd'[c] = new
        /\ \A d \in Commands \ {c} : cmd'[d] = cmd[d]
    BY <1>2, <1>3
  <1>5. Carried(c)'
    BY <1>1, <1>2, <1>3, <1>4 DEF Carried
  <1>6. ASSUME NEW d \in Commands \ {c} PROVE Carried(d)'
    BY <1>1, <1>2, <1>4 DEF Carried
  <1>7. versions' \in Seq(Version) /\ Versions'
    <2>1. CASE versions' = versions
      BY <1>1, <2>1 DEF SecretInv, Types, Versions
    <2>2. CASE versions' = <<>>
      <3>1. versions' \in Seq(Version) /\ DOMAIN versions' = {}
        BY <2>2
      <3> QED BY <3>1 DEF Versions
    <2> QED BY <1>1, <2>1, <2>2
  <1>8. Types' /\ Registry'
    BY <1>1, <1>4, <1>7 DEF SecretInv, Types, Registry
  <1> QED BY <1>5, <1>6, <1>7, <1>8 DEF SecretInv

LEMMA RegistryKeeps ==
  ASSUME SecretInv, NEW k \in Keys, RegisterPubkey(k) \/ ApprovePubkey(k) \/ RevokePubkey(k)
  PROVE  SecretInv'
  <1>1. /\ UNCHANGED <<shown, versions, grants, written, cmd>> /\ approved \subseteq approved'
        /\ approved' \subseteq Keys
    BY DEF RegisterPubkey, ApprovePubkey, RevokePubkey, secret, SecretInv, Types
  <1>2. row' \in [Keys -> Rows] /\ Registry'
    BY DEF RegisterPubkey, ApprovePubkey, RevokePubkey, SecretInv, Types, Registry, Rows
  <1>3. Versions' /\ \A c \in Commands : Carried(c)'
    BY <1>1 DEF SecretInv, Versions, Carried
  <1> QED BY <1>1, <1>2, <1>3 DEF SecretInv, Types

LEMMA SecretStep == SecretInv /\ [Next]_vars => SecretInv'
  <1> SUFFICES ASSUME SecretInv, [Next]_vars PROVE SecretInv'
    OBVIOUS
  <1>1. ASSUME NEW c \in Commands, CommandStep(c) PROVE SecretInv'
    BY <1>1, StartKeeps, FetchKeeps, ListKeeps, PutKeeps, WithdrawKeeps DEF CommandStep
  <1>2. ASSUME UNCHANGED <<registry, secret, cmd>> PROVE SecretInv'
    BY <1>2 DEF registry, secret, SecretInv, Types, Registry, Versions, Carried
  <1>3. ASSUME NEW e \in Enrollers, HasKey(e) \/ StoreKey(e) \/ DeleteKey(e) PROVE SecretInv'
    BY <1>2, <1>3 DEF HasKey, StoreKey, DeleteKey
  <1>4. CASE UNCHANGED vars
    BY <1>2, <1>4 DEF vars
  <1> QED BY <1>1, <1>3, <1>4, RegistryKeeps DEF Next, AllDone

\* Who can open a stored version is who it was granted to, whatever the rows of the
\* registry show, and no version is ever encrypted to a key that nobody approved
\* (putSecretForRecipients, secrets/client.ts).
THEOREM GrantsRead == Spec => []RightReaders
  <1>1. SecretInv => ReadableByGrants
    BY DEF SecretInv, Versions, ReadableByGrants
  <1>2. SecretInv => OnlyApproved
    BY DEF SecretInv, Versions, OnlyApproved
  <1>3. SecretInv => RightReaders
    BY <1>1, <1>2 DEF RightReaders
  <1> QED BY <1>3, SecretInitially, SecretStep, PTL DEF Spec

\* A grant or a rotation that replaces the version it fetched takes every reader along
\* who still has a grant, and lets in nobody but the key granted (secret.ts).
THEOREM ReadersCarriedOver == Spec => CarriesReadersOver
  <1>1. ASSUME SecretInv, Next, NEW c \in Commands, cmd[c].op \in {"grant", "rotate"},
               cmd[c] # cmd'[c], cmd[c].base = written, written' # written, versions # <<>>
        PROVE  LET old == Last(versions)  new == Last(versions')
               IN  /\ old.box \cap grants \subseteq new.box
                   /\ new.box \subseteq old.box \cup cmd[c].to
                   /\ cmd[c].op = "grant" => new.value = old.value
    <2>1. PICK d \in Commands : Put(d)
      BY <1>1 DEF Next, CommandStep, Start, Fetch, List, RevokeGrant, DeleteSecret, secret,
             RegisterPubkey, ApprovePubkey, RevokePubkey, HasKey, StoreKey, DeleteKey, AllDone, vars
    <2>2. d = c
      BY <1>1, <2>1 DEF Put, End, Become, SecretInv, Types
    <2>3. cmd[c].pc = "put" /\ cmd[c].op \in Writers /\ Carried(c)
      BY <1>1, <2>1, <2>2, PutWrites DEF SecretInv
    <2>4. /\ cmd[c].found \subseteq Last(versions).snapshot
          /\ Last(versions).snapshot \cap grants \subseteq cmd[c].found
          /\ cmd[c].op = "grant" => cmd[c].value = Last(versions).value
          /\ cmd[c].found \subseteq cmd[c].recipients
          /\ cmd[c].recipients \subseteq cmd[c].found \cup cmd[c].to
      BY <1>1, <2>3 DEF Carried
    <2>5. Last(versions').box = cmd[c].recipients /\ Last(versions').value = cmd[c].value
      BY <1>1, <2>1, <2>2, PutWrites
    <2> QED BY <1>1, <2>4, <2>5, LastVersion
  <1>2. ASSUME SecretInv, [Next]_vars
        PROVE  [\A c \in Commands :
                  (/\ cmd[c].op \in {"grant", "rotate"} /\ cmd[c] # cmd'[c]
                   /\ cmd[c].base = written /\ written' # written /\ versions # <<>>)
                  => LET old == Last(versions)  new == Last(versions')
                     IN  /\ old.box \cap grants \subseteq new.box
                         /\ new.box \subseteq old.box \cup cmd[c].to
                         /\ cmd[c].op = "grant" => new.value = old.value]_vars
    BY <1>1, <1>2
  <1> QED BY <1>2, SecretInitially, SecretStep, PTL DEF Spec, CarriesReadersOver
=============================================================================
