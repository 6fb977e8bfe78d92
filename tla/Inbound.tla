------------------------------ MODULE Inbound -------------------------------
(***************************************************************************)
(* From the panel's configuration of a node to an inbound: which runtime   *)
(* serves it, what is refused, where the TLS material comes from and how   *)
(* users are named.  A text is "" or filled, and what fills it says where  *)
(* it was written: "panel", "file" (the fallback) or "disk" (generated).   *)
(* A JSON object is a function from the keys it has to their values.       *)
(***************************************************************************)
EXTENDS Integers, Sequences, SequencesExt

Fails == [ok |-> FALSE]

\* strings.ToLower on the spellings with capitals that occur.
Lower(text) ==
  CASE text = "VLESS" -> "vless" [] text = "Hysteria" -> "hysteria" [] text = "Mieru" -> "mieru"
    [] text = "FILE" -> "file" [] text = "UDP" -> "udp" [] OTHER -> text

\* The node-type header, which tells the panel what the node is.
NodeType(cfg) ==
  IF Lower(cfg.protocol) = "hysteria" /\ cfg.version = 2
    THEN "hysteria2" ELSE Lower(cfg.protocol)

ValidPort(port) == port \in 1 .. 65535

OrElse(text, other) == IF text = "" THEN other ELSE text

-----------------------------------------------------------------------------
(* Certificates.                                                           *)

\* The value of the first key that is there, even if it is empty.
Value(raw, keys) ==
  LET present == {i \in DOMAIN keys : keys[i] \in DOMAIN raw}
  IN  IF present = {} THEN "" ELSE raw[keys[Min(present)]]

fromMap(raw) ==
  [mode     |-> Value(raw, <<"cert_mode">>),
   certPath |-> Value(raw, <<"certificate_path", "cert_path">>),
   keyPath  |-> Value(raw, <<"key_path">>),
   cert     |-> Value(raw, <<"cert_content", "certificate">>),
   key      |-> Value(raw, <<"cert_key", "key">>),
   name     |-> Value(raw, <<"cert_domain", "server_name", "domain">>),
   provider |-> Value(raw, <<"cert_dns_provider", "provider">>),
   envs     |-> IF "cert_envs" \in DOMAIN raw THEN raw.cert_envs ELSE <<>>]

\* Mutant: what the panel leaves out is filled in from the fallback.
SelectedMixed(raw, fallback) ==
  LET panel == fromMap(raw)
  IN  [panel EXCEPT !.mode = OrElse(@, fallback.mode),
                    !.certPath = OrElse(@, fallback.certPath), !.keyPath = OrElse(@, fallback.keyPath),
                    !.cert = OrElse(@, fallback.cert), !.key = OrElse(@, fallback.key)]

\* The panel's setting replaces the fallback as a whole, unless it is empty.
Selected(raw, fallback) == IF DOMAIN raw = {} THEN fallback ELSE fromMap(raw)

\* cert_envs, lines or JSON: the last value given to a name, "" if none.
parseEnvs(lines, name) ==
  LET given == SelectSeq(lines, LAMBDA l : l.name = name)
  IN  IF given = <<>> THEN "" ELSE Last(given).value

\* The credential of a DNS challenge: a token, or two keys that go together.
Credential(s) ==
  CASE s.provider = "cloudflare" ->
         OrElse(parseEnvs(s.envs, "CF_API_TOKEN"), parseEnvs(s.envs, "CLOUDFLARE_API_TOKEN"))
    [] s.provider = "alidns" ->
         IF parseEnvs(s.envs, "ALICLOUD_ACCESS_KEY") = "" THEN ""
         ELSE parseEnvs(s.envs, "ALICLOUD_SECRET_KEY")
    [] OTHER -> ""

\* The material is a pair: certificate and key, or for ACME the name and what
\* proves it.  A pair with a half missing is an error.
Material(kind, cert, key) ==
  IF "" \in {cert, key} THEN Fails ELSE [ok |-> TRUE, kind |-> kind, cert |-> cert, key |-> key]

Resolve(raw, fallback, serverName) ==
  LET s == Selected(raw, fallback)
      name == OrElse(s.name, serverName)
      mode == Lower(s.mode)
  IN  CASE mode \in {"", "none"} -> [ok |-> TRUE, kind |-> "none"]
        [] mode = "file"         -> Material("paths", s.certPath, s.keyPath)
        [] mode = "content"      -> Material("content", s.cert, s.key)
        [] mode = "self-signed"  -> Material("paths", "disk", "disk")
        [] mode = "http-01"      -> Material("acme", name, "challenge")
        [] mode = "dns-01"       -> Material("acme", name, Credential(s))
        [] OTHER -> Fails

-----------------------------------------------------------------------------
(* REALITY.                                                                *)

\* stringSetting, trimmed: "" if the key is absent or no text.
Setting(settings, key) ==
  IF key \notin DOMAIN settings \/ settings[key] = " " THEN "" ELSE settings[key]

\* A port is a text, an integer or a float; exact says that a text or a float
\* stands for a whole number.
realityServerPort(value) ==
  IF value.type = "other" \/ ~value.exact \/ ~ValidPort(value.whole)
    THEN Fails ELSE [ok |-> TRUE, port |-> value.whole]

buildRealityInboundTLS(settings, port) ==
  LET name == Setting(settings, "server_name")
      key == Setting(settings, "private_key")
  IN  IF "" \in {name, key} \/ ~realityServerPort(port).ok
        THEN Fails
        ELSE [ok |-> TRUE, kind |-> "reality", cert |-> name, key |-> key,
              port |-> realityServerPort(port).port]

-----------------------------------------------------------------------------
(* The inbound.                                                            *)

Protocols == {"shadowsocks", "vmess", "vless", "trojan", "hysteria", "hysteria2",
              "tuic", "anytls", "socks", "http", "naive"}

\* Mutant: version 2 of hysteria is served as version 1.
ServedAsWritten(cfg) == cfg.protocol

\* What inbound makes of the panel's protocol: no change of case.
ServedType(cfg) == IF cfg.protocol = "hysteria" /\ cfg.version = 2 THEN "hysteria2" ELSE cfg.protocol

requiresTLS(protocol, cfg) ==
  cfg.tls > 0 \/ protocol \in {"trojan", "hysteria", "hysteria2", "tuic", "anytls", "naive"}

\* The TLS section: none, the material of a certificate, or REALITY's.
TlsSection(cfg, fallback) ==
  IF ~requiresTLS(ServedType(cfg), cfg) THEN [ok |-> TRUE, kind |-> "none"]
  ELSE IF cfg.tls = 2 THEN buildRealityInboundTLS(cfg.settings, cfg.realityPort)
  ELSE LET material == Resolve(cfg.cert, fallback, cfg.serverName)
       IN  IF material.ok /\ material.kind = "none" THEN Fails ELSE material

\* What the embedded inbounds cannot do.
Unsupported(cfg) ==
  \/ cfg.plugin # ""
  \/ cfg.protocol = "vless" /\ cfg.decryption \notin {"", "none"}
  \/ cfg.protocol = "tuic" /\ cfg.version = 4

build(cfg, fallback) ==
  LET tls == TlsSection(cfg, fallback)
  IN  IF ~ValidPort(cfg.port) \/ Unsupported(cfg) \/ ServedType(cfg) \notin Protocols \/ ~tls.ok
        THEN Fails
        ELSE [ok |-> TRUE, type |-> ServedType(cfg), port |-> cfg.port, tls |-> tls]

\* Factory.New of mieru: its transport is TCP or UDP, in any case, and it has
\* no outbounds or rules of the panel's own.
NewMieru(cfg) ==
  IF ~ValidPort(cfg.port) \/ cfg.custom \/ Lower(cfg.transport) \notin {"", "tcp", "udp"}
    THEN Fails
    ELSE [ok |-> TRUE, type |-> "mieru", port |-> cfg.port, tls |-> [ok |-> TRUE, kind |-> "none"]]

createRuntime(cfg, fallback) == IF cfg.protocol = "mieru" THEN NewMieru(cfg) ELSE build(cfg, fallback)

\* The name under which a runtime knows a user; a text of digits is a number.
Text(n) == [digits |-> TRUE, n |-> n]
UserName(type, user) ==
  IF type \in {"socks", "http", "naive", "mieru"} THEN user.uuid ELSE Text(user.id)

\* Store.UserBySecret among users with different UUIDs, 0 if there is none.
UserBySecret(users, secret) ==
  IF \E u \in users : u.uuid = secret THEN (CHOOSE u \in users : u.uuid = secret).id ELSE 0

\* Mutant: a name is always looked up.
resolveBySecret(type, users, name) == UserBySecret(users, name)

\* resolveUser of sing-box's tracker; the handler of mieru looks the name up.
resolveUser(type, users, name) ==
  IF type # "mieru" /\ name.digits THEN name.n ELSE UserBySecret(users, name)

-----------------------------------------------------------------------------
(* What an accepted configuration must amount to.                          *)

\* A section has both halves of its material, a certificate and its key come
\* from one place, and REALITY has a port to pass strangers on to.
IsWhole(tls) ==
  /\ tls.cert # "" /\ tls.key # ""
  /\ tls.kind \in {"paths", "content"} => tls.cert = tls.key
  /\ tls.kind = "reality" => ValidPort(tls.port)

\* Whatever mixture of panel setting, fallback, aliases and empty keys: an
\* inbound that must have TLS has both halves of its material, and a
\* certificate never goes with a key that was configured somewhere else.
MaterialIsWhole(cfg, fallback) ==
  LET inbound == createRuntime(cfg, fallback)
  IN  (inbound.ok /\ inbound.type # "mieru" /\ requiresTLS(inbound.type, cfg)) =>
        inbound.tls.kind # "none" /\ IsWhole(inbound.tls)

\* The panel reads the users of a node and bills its reports by the node-type
\* header; what the node serves is what it says it is.  (Protocols in capitals
\* are announced in lower case, and refused.)
TypeIsAnnounced(cfg, fallback) ==
  LET inbound == createRuntime(cfg, fallback)
  IN  inbound.ok => inbound.type = NodeType(cfg)

\* The name an inbound gives a user leads the tracker back to that user, in
\* every protocol.  UUIDs are not numbers: one that is would be taken for an
\* id by resolveUser.
NamesResolve(type, users) ==
  (\A u \in users : ~u.uuid.digits) =>
    \A u \in users : resolveUser(type, users, UserName(type, u)) = u.id
=============================================================================
