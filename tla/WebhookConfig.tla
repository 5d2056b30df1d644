--------------------------- MODULE WebhookConfig ---------------------------
(***************************************************************************)
(* The per-challenge configuration (src/internal/solver/config.go) and the *)
(* part of prepare (solver.go) that depends on the ChallengeRequest alone: *)
(* parse the config, route the FQDN, find the Secret of the credential.    *)
(*                                                                         *)
(* A ChallengeRequest is a record with fqdn (ResolvedFQDN), key, namespace *)
(* (ResourceNamespace) and config: the JSON blob, as what json.Unmarshal   *)
(* makes of it.  Blank strings are "".                                     *)
(***************************************************************************)
EXTENDS Routing

NoRef == [resolved |-> FALSE]

\* An explicit namespace wins over the default; the key defaults to "token".
ResolveSecretRef(cred, defaultNamespace) ==
  LET namespace == IF cred.namespace # "" THEN cred.namespace ELSE defaultNamespace
      key == IF cred.secretKey # "" THEN cred.secretKey ELSE "token"
  IN  IF cred.secretName = "" \/ namespace = ""
        THEN NoRef
        ELSE [resolved |-> TRUE, namespace |-> namespace,
              name |-> cred.secretName, key |-> key]

\* "ns/name#key".  None of "/" and "#" occurs in a Kubernetes namespace,
\* Secret name or Secret key, so the string determines the three parts.
SecretRefString(ref) == <<ref.namespace, ref.name, ref.key>>

\* The routing.Config that parseConfig builds.
RoutingConfig(config, defaultNamespace) ==
  [i \in DOMAIN config.credentials |->
     LET cred == config.credentials[i]
     IN  [name |-> cred.name, zones |-> cred.zones,
          apiTokenSecretRef |->
            SecretRefString(ResolveSecretRef(cred, defaultNamespace))]]

\* parseConfig returns no error.
ParseConfigOK(config, defaultNamespace) ==
  /\ config.json = "parsed"
  /\ config.credentials # <<>>
  /\ \A i \in DOMAIN config.credentials :
       ResolveSecretRef(config.credentials[i], defaultNamespace) # NoRef
  /\ ValidConfig(RoutingConfig(config, defaultNamespace))

\* secretRefs[name]: a later credential of the same name overwrites.
SecretRefs(config, defaultNamespace, name) ==
  LET creds == config.credentials
      i == CHOOSE i \in DOMAIN creds :
             /\ creds[i].name = name
             /\ \A j \in DOMAIN creds : creds[j].name = name => j <= i
  IN  ResolveSecretRef(creds[i], defaultNamespace)

\* The Secret, the zone-apex and the record a request is routed to.
RouteOf(ch) ==
  LET creds == RoutingConfig(ch.config, ch.namespace)
      match == Resolve(creds, ch.fqdn)
      cred == creds[match.cred]
  IN  IF ~ParseConfigOK(ch.config, ch.namespace) \/ ~match.matched
        THEN [ok |-> FALSE]
        ELSE [ok |-> TRUE,
              secret |-> SecretRefString(SecretRefs(ch.config, ch.namespace, cred.name)),
              apex |-> match.apex,
              record |-> RelativeRecordName(ch.fqdn, match.apex)]

============================================================================
