----------------------------- MODULE LogConfig -----------------------------
(***************************************************************************)
(* How ct_server comes up: the configuration of the logs is read and       *)
(* validated (ctfe/config.go), every backend is dialled, and every log is  *)
(* set up (ctfe/instance.go) and gets its handlers.                        *)
(*                                                                         *)
(* A configuration is a record; a field of a key, timestamp or file says   *)
(* whether it is there and can be parsed.  A path is a sequence of names   *)
(* and slashes.                                                            *)
(***************************************************************************)
EXTENDS Integers, Sequences, SequencesExt, FiniteSets

CONSTANTS Absent, Malformed       \* a field that is not set, one that cannot be parsed

Error == [ok |-> FALSE]

\* A LogConfig: paths and key usages are sequences, other fields have any value.
LogConfigs(Names, Values) ==
    [logId : Values, publicKey : Values, privateKey : Values, isMirror : BOOLEAN, isReadonly : BOOLEAN,
     frozenSTH : Values, rejectExpired : BOOLEAN, rejectUnexpired : BOOLEAN, ekus : Seq(Names),
     notAfterStart : Values, notAfterLimit : Values, maxMergeDelay : Values, expectedMergeDelay : Values,
     prefix : Seq(Names), override : Seq(Names), backend : Values, roots : Values, rejectExtensions : Values]

stringToKeyUsage == {"Any", "ServerAuth", "ClientAuth"}

\* The names up to "Any" have to be known; "Any" allows all.
UsagesUpTo(any, names) ==
    IF ~ToSet(IF any = 0 THEN names ELSE SubSeq(names, 1, any - 1)) \subseteq stringToKeyUsage THEN Error
    ELSE [ok |-> TRUE, usages |-> IF any = 0 THEN ToSet(names) ELSE {}]
KeyUsages(names) == UsagesUpTo(SelectInSeq(names, LAMBDA n : n = "Any"), names)

KeysAreValid(c) ==
    /\ c.publicKey # Malformed
    /\ c.publicKey = Absent => ~c.isMirror /\ c.frozenSTH = Absent
    /\ IF c.isMirror THEN c.privateKey = Absent ELSE c.privateKey \notin {Absent, Malformed}

\* The signature of a frozen head is verified with the public key.
FrozenIsValid(c) == c.frozenSTH # Absent => c.frozenSTH # Malformed /\ c.frozenSTH.signedBy = c.publicKey

ConfigWithUsages(c, usages) ==
    IF /\ c.logId # 0 /\ KeysAreValid(c)
       /\ ~(c.rejectExpired /\ c.rejectUnexpired)
       /\ usages.ok
       /\ c.notAfterStart # Malformed /\ c.notAfterLimit # Malformed
       /\ Absent \notin {c.notAfterStart, c.notAfterLimit} => c.notAfterStart <= c.notAfterLimit
       /\ 0 <= c.expectedMergeDelay /\ c.expectedMergeDelay <= c.maxMergeDelay
       /\ FrozenIsValid(c)
    THEN [ok |-> TRUE, keyUsages |-> usages.usages]
    ELSE Error
ValidateLogConfig(c) == ConfigWithUsages(c, KeyUsages(c.ekus))

----------------------------------------------------------------------------
BuildLogBackendMap(backends) ==
    /\ \A i \in DOMAIN backends : Absent \notin {backends[i].name, backends[i].spec}
    /\ \A i, j \in DOMAIN backends :
         i # j => backends[i].name # backends[j].name /\ backends[i].spec # backends[j].spec

validateConfigs(cfgs) ==
    /\ \A i \in DOMAIN cfgs : ValidateLogConfig(cfgs[i]).ok /\ cfgs[i].prefix # <<>>
    /\ \A i, j \in DOMAIN cfgs : i # j => cfgs[i].prefix # cfgs[j].prefix

BackendsAreDefined(cfgs, backends) ==
    \A i \in DOMAIN cfgs : \E b \in ToSet(backends) : b.name = cfgs[i].backend

\* Mutant: logs of different backends are compared as well, and those of one
\* are not.
ValidateLogMultiConfigMutant(m) ==
    /\ BuildLogBackendMap(m.backends) /\ validateConfigs(m.cfgs) /\ BackendsAreDefined(m.cfgs, m.backends)
    /\ \A i, j \in DOMAIN m.cfgs :
         i # j /\ m.cfgs[i].backend # m.cfgs[j].backend => m.cfgs[i].logId # m.cfgs[j].logId

ValidateLogMultiConfig(m) ==
    /\ BuildLogBackendMap(m.backends) /\ validateConfigs(m.cfgs) /\ BackendsAreDefined(m.cfgs, m.backends)
    /\ \A i, j \in DOMAIN m.cfgs :
         i # j /\ m.cfgs[i].backend = m.cfgs[j].backend => m.cfgs[i].logId # m.cfgs[j].logId

\* A file without logs is refused.
LogConfigFromFile(m) == m.cfgs # <<>>

\* With --rpc_backend there is one backend, and all logs are moved to it.
ToMultiLogConfig(cfgs, spec) ==
    [cfgs |-> [i \in DOMAIN cfgs |-> [cfgs[i] EXCEPT !.backend = "default"]],
     backends |-> <<[name |-> "default", spec |-> spec]>>]

MultiLogConfigFromFile(m) == m.cfgs # <<>> /\ m.backends # <<>>

----------------------------------------------------------------------------
(* SetUpInstance and the handlers.                                         *)

\* strings.TrimRight and TrimLeft: what ends, or begins, with no slash.
NoSlash(name) == name # "/"
TrimRight(p) == SubSeq(p, 1, SelectLastInSeq(p, NoSlash))
TrimLeft(p) == IF SelectInSeq(p, NoSlash) = 0 THEN <<>> ELSE SubSeq(p, SelectInSeq(p, NoSlash), Len(p))

\* Handlers: a slash before the prefix, none after it.
Handlers(c) ==
    LET slashed == IF Head(c.prefix) = "/" THEN c.prefix ELSE <<"/">> \o c.prefix
        endpoints == {"get-sth", "get-sth-consistency", "get-proof-by-hash", "get-entries", "get-roots", "get-entry-and-proof"}
                       \cup (IF c.isReadonly \/ c.isMirror THEN {} ELSE {"add-chain", "add-pre-chain"})
    IN {Append(TrimRight(slashed), e) : e \in endpoints}

\* setUpLogInfo: only a log that is not a mirror needs roots, and has a signer.
setUpLogInfo(c) ==
    IF \/ ~c.isMirror /\ c.roots = Absent
       \/ c.roots = Malformed \/ c.rejectExtensions = Malformed
    THEN Error
    ELSE [ok |-> TRUE, signer |-> IF c.isMirror THEN Absent ELSE c.privateKey,
          keyUsages |-> ValidateLogConfig(c).keyUsages,
          sthGetter |-> IF c.frozenSTH # Absent THEN "frozen" ELSE IF c.isMirror THEN "mirror" ELSE "log"]

\* setupAndRegister: a log may have a handler prefix of its own.
setupAndRegister(c, handlerPrefix, client) ==
    LET lhp == IF c.override = <<>> THEN handlerPrefix ELSE <<"/">> \o TrimLeft(TrimRight(c.override))
    IN {[path |-> lhp \o p, log |-> c, client |-> client, info |-> setUpLogInfo(c)] : p \in Handlers(c)}

Exit == [at |-> "exit"]

\* The file is of one of two kinds, as the flags say.
ReadConfig(m, rpcBackend) ==
    LET nonempty == IF rpcBackend = Absent THEN MultiLogConfigFromFile(m) ELSE LogConfigFromFile(m)
        multi == IF rpcBackend = Absent THEN m ELSE ToMultiLogConfig(m.cfgs, rpcBackend)
    IN IF nonempty /\ ValidateLogMultiConfig(multi) THEN [ok |-> TRUE, cfg |-> multi] ELSE Error

\* http.ServeMux panics when a path is registered twice.
Register(handlers) ==
    IF \E i, j \in DOMAIN handlers : i # j /\ \E h \in handlers[i], g \in handlers[j] : h.path = g.path
    THEN [at |-> "panic"]
    ELSE [at |-> "serving", mux |-> UNION ToSet(handlers)]

Serve(multi, handlerPrefix) ==
    LET clientMap(name) == (CHOOSE b \in ToSet(multi.backends) : b.name = name).spec
        Of(i) == setupAndRegister(multi.cfgs[i], handlerPrefix, clientMap(multi.cfgs[i].backend))
    IN IF \E i \in DOMAIN multi.cfgs : ~setUpLogInfo(multi.cfgs[i]).ok THEN Exit
       ELSE Register([i \in DOMAIN multi.cfgs |-> Of(i)])
main(m, rpcBackend, handlerPrefix) ==
    LET read == ReadConfig(m, rpcBackend) IN IF ~read.ok THEN Exit ELSE Serve(read.cfg, handlerPrefix)

----------------------------------------------------------------------------
\* What ct_server serves: for every log its heads under a path of its own,
\* from a tree that no other log uses, and chains only where SCTs can be
\* signed; extended key usages are restricted to those that were listed.
KeepsApart(s, m) ==
    s.at = "serving" =>
         /\ Cardinality({h \in s.mux : Last(h.path) = "get-sth"}) = Len(m.cfgs)
         /\ \A h, g \in s.mux :
              /\ h.path = g.path => h = g
              /\ h.client = g.client /\ h.log.logId = g.log.logId => h.log = g.log
         /\ \A h \in s.mux :
              /\ Last(h.path) \in {"add-chain", "add-pre-chain"} => h.info.signer \notin {Absent, Malformed} /\ ~h.log.isMirror /\ ~h.log.isReadonly
              /\ h.info.sthGetter = "frozen" => h.log.frozenSTH.signedBy = h.log.publicKey
              /\ h.info.keyUsages = IF Contains(h.log.ekus, "Any") THEN {} ELSE ToSet(h.log.ekus)

ServesItsOwn(m, rpcBackend, handlerPrefix) == KeepsApart(main(m, rpcBackend, handlerPrefix), m)
=============================================================================
