------------------------------ MODULE Secrets ------------------------------
(***************************************************************************)
(* secrets/: how the API key and the additional endpoints are resolved at  *)
(* startup from KMS, Secrets Manager, the parameter store or Datadog, and  *)
(* how the requests for them are signed.                                   *)
(*                                                                         *)
(* cfg: the DD_ settings; "" is unset.  An ARN is [region], <<>> is unset. *)
(* world: what answers: [env, container, kms, secrets, ssm, datadog].  An  *)
(* outcome is [is, value]: "ok", "err", "hang" when no answer comes, or    *)
(* "panic".                                                                *)
(*                                                                         *)
(* Definitions whose name starts with Mut are plausible wrong versions of  *)
(* the definition that follows them; the runs' properties are shown to     *)
(* reject them.                                                            *)
(***************************************************************************)
EXTENDS Integers, Sequences, TLC

Ok(value) == [is |-> "ok", value |-> value]
Err == [is |-> "err"]
Hang == [is |-> "hang"]
Panic == [is |-> "panic"]

\* Credentials: [id, secret, token].  The environment has them, or names the
\* container's endpoint under SnapStart, or has neither.
NoCredentials == [id |-> "", secret |-> "", token |-> ""]
get_snapstart_credentials(world) == world.container
get_aws_credentials(world) ==
  CASE world.env = "static" -> Ok([id |-> "id", secret |-> "secret", token |-> "token"])
    [] world.env = "snapstart" -> get_snapstart_credentials(world)
    [] OTHER -> Ok(NoCredentials)
-----------------------------------------------------------------------------
\* HMAC-SHA256, and the key it is used with.
sign(key, msg) == <<key, msg>>
get_aws4_signature_key(secret, date, region, service) ==
  sign(sign(sign(sign(<<"AWS4", secret>>, date), region), service), "aws4_request")
compute_aws_api_host(service, region, domain) == <<service, region, domain>>

\* The names signed, what is signed under them, and the headers sent.
Canonical(headers, names) == [n \in names |-> headers[n]]
Signature(secret, headers, names, body, service, region) ==
  sign(get_aws4_signature_key(secret, headers["x-amz-date"], region, service),
       <<headers["x-amz-date"], service, region, Canonical(headers, names), body>>)
Signed(credentials, headers, names, body, service, region) ==
  [headers |-> headers, body |-> body,
   authorization |-> [id |-> credentials.id, scope |-> <<service, region>>, signed |-> names,
                      signature |-> Signature(credentials.secret, headers, names, body, service, region)]]

SignedNames == {"content-type", "host", "x-amz-date", "x-amz-security-token", "x-amz-target"}
MutSignsForOwnRegion(own, credentials, region, args) ==
  LET headers == "content-type" :> <<"json">> @@ "x-amz-date" :> <<"now">> @@ "x-amz-target" :> <<args.target>>
        @@ "host" :> compute_aws_api_host(args.service, region, own = "cn") @@ "x-amz-security-token" :> <<credentials.token>>
  IN Signed(credentials, headers, SignedNames, args.body, args.service, own)
build_get_secret_signed_headers(own, credentials, region, args) ==
  LET headers == "content-type" :> <<"json">> @@ "x-amz-date" :> <<"now">> @@ "x-amz-target" :> <<args.target>>
        @@ "host" :> compute_aws_api_host(args.service, region, own = "cn") @@ "x-amz-security-token" :> <<credentials.token>>
  IN Signed(credentials, headers, SignedNames, args.body, args.service, region)

\* The proof Datadog is shown: a signed request for the caller's identity, which
\* names the organization; a session token is in it if there is one.
generate_auth_proof(own, credentials, org) ==
  LET headers == "content-type" :> <<"form">> @@ "x-amz-date" :> <<"now">> @@ "x-ddog-org-id" :> <<org>>
        @@ "host" :> compute_aws_api_host("sts", own, FALSE)
        @@ (IF credentials.token = "" THEN <<>> ELSE "x-amz-security-token" :> <<credentials.token>>)
      names == {"content-type", "host", "x-amz-date", "x-ddog-org-id"}
                 \cup (IF credentials.token = "" THEN {} ELSE {"x-amz-security-token"})
  IN IF credentials.id = "" \/ credentials.secret = "" \/ org = "" THEN Err
     ELSE Ok(Signed(credentials, headers, names, "GetCallerIdentity", "sts", own))

\* AWS: the signature is the one the credentials give for what arrived, at the
\* service and the region of the host.
Verifies(request, secret) ==
  LET a == request.authorization
      host == request.headers["host"]
  IN /\ a.signed \subseteq DOMAIN request.headers
     /\ a.scope = <<host[1], host[2]>>
     /\ a.signature = Signature(secret, request.headers, a.signed, request.body, host[1], host[2])
-----------------------------------------------------------------------------
\* An ARN names its region; without one it is the function's own.
RegionOf(arn, own) == IF arn.region = "" THEN own ELSE arn.region
Args(service, target, body) == [service |-> service, target |-> target, body |-> body]
KmsArgs(with_context) == Args("kms", "TrentService.Decrypt", IF with_context THEN "blob with context" ELSE "blob")

\* The plaintext is in the answer to the request with the context the blob was
\* encrypted with; first none is tried, then the function's name.
decrypt_aws_kms(world) ==
  CASE world.kms.is # "ok" -> world.kms
    [] world.kms.is = "ok" /\ world.kms.context \in {"none", "function name"} -> Ok(world.kms.value)
    [] OTHER -> Err

\* A secret is [string, plain, dd_api_key, apiKey]: <<>> or <<its value>> for a field
\* of a JSON object, of which an empty one counts as there.
extract_secret_string(secret) ==
  CASE secret.string = "absent" -> Err
    [] secret.string = "json" /\ secret.dd_api_key # <<>> -> Ok(secret.dd_api_key[1])
    [] secret.string = "json" /\ secret.dd_api_key = <<>> /\ secret.apiKey # <<>> -> Ok(secret.apiKey[1])
    [] OTHER -> Ok(secret.plain)
decrypt_aws_sm(answer) == IF answer.is = "ok" THEN extract_secret_string(answer.value) ELSE answer

\* A parameter without a value is indexed all the same.
decrypt_aws_ssm(world) ==
  CASE world.ssm.is # "ok" -> world.ssm
    [] world.ssm.is = "ok" /\ world.ssm.value = "no parameter" -> Err
    [] world.ssm.is = "ok" /\ world.ssm.value = "no value" -> Panic
    [] OTHER -> world.ssm

get_delegated_api_key(cfg, credentials, world) ==
  LET proof == generate_auth_proof(cfg.region, credentials, cfg.dd_org_uuid)
  IN CASE proof.is = "err" -> Err
       [] proof.is = "ok" /\ world.datadog.is # "ok" -> world.datadog
       [] OTHER -> IF world.datadog.value = "" THEN Err ELSE world.datadog

\* Blanks go; an empty key is none.
clean_api_key(outcome) ==
  CASE outcome.is = "ok" -> LET key == IF outcome.value = " key\n" THEN "key" ELSE IF outcome.value = " \n" THEN "" ELSE outcome.value
                            IN IF key = "" THEN Err ELSE Ok(key)
    [] OTHER -> outcome

\* "err" stands for None: the flushers have no key.
resolve_secrets(cfg, world) ==
  LET credentials == get_aws_credentials(world)
      decrypted ==
        CASE cfg.dd_org_uuid # "" -> get_delegated_api_key(cfg, credentials.value, world)
          [] cfg.dd_org_uuid = "" /\ cfg.kms_api_key # "" -> decrypt_aws_kms(world)
          [] cfg.dd_org_uuid = "" /\ cfg.kms_api_key = "" /\ cfg.api_key_secret_arn # <<>> -> decrypt_aws_sm(world.secrets["api_key"])
          [] OTHER -> decrypt_aws_ssm(world)
  IN IF cfg.dd_org_uuid = "" /\ cfg.kms_api_key = "" /\ cfg.api_key_secret_arn = <<>> /\ cfg.api_key_ssm_arn = <<>>
       THEN clean_api_key(Ok(cfg.api_key))
     ELSE IF credentials.is # "ok" THEN credentials
     ELSE clean_api_key(decrypted)
-----------------------------------------------------------------------------
Pipelines == {"metrics", "apm", "logs"}
has_additional_endpoints_secrets(cfg) == \E p \in Pipelines : cfg.arns[p] # <<>>

\* The endpoints in the secret of the pipeline; <<>> if there are none to be had, a
\* request that is not answered in time included.
fetch_additional_endpoints(cfg, world, p) ==
  LET result == decrypt_aws_sm(world.secrets[p])
  IN IF cfg.arns[p] = <<>> \/ result.is # "ok" \/ result.value # "endpoints" THEN <<>> ELSE <<<<"secret", p>>>>

resolve_additional_endpoints_secrets(cfg, world) ==
  LET credentials == get_aws_credentials(world)
      fetched == [p \in Pipelines |-> fetch_additional_endpoints(cfg, world, p)]
  IN IF ~has_additional_endpoints_secrets(cfg) \/ credentials.is # "ok" THEN cfg.endpoints
     ELSE [p \in Pipelines |-> IF fetched[p] = <<>> THEN cfg.endpoints[p] ELSE fetched[p][1]]

\* The requests a configuration makes AWS answer.
Requests(cfg, credentials) ==
  LET Get(arn, args) == build_get_secret_signed_headers(cfg.region, credentials, RegionOf(arn, cfg.region), args)
      sm == {a \in {cfg.api_key_secret_arn} \cup {cfg.arns[p] : p \in Pipelines} : a # <<>>}
      proof == generate_auth_proof(cfg.region, credentials, cfg.dd_org_uuid)
  IN {Get(a[1], Args("secretsmanager", "secretsmanager.GetSecretValue", "SecretId")) : a \in sm}
       \cup {Get(a[1], Args("ssm", "AmazonSSM.GetParameter", "Name")) : a \in {cfg.api_key_ssm_arn} \ {<<>>}}
       \cup {Get([region |-> ""], KmsArgs(c)) : c \in {b \in BOOLEAN : cfg.kms_api_key # ""}}
       \cup {r.value : r \in {p \in {proof} : p.is = "ok"}}
=============================================================================
