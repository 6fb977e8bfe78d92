--------------------------- MODULE MCTranslations ---------------------------
(***************************************************************************)
(* Bounded inputs for the translations.                                    *)
(***************************************************************************)
EXTENDS Translations

-----------------------------------------------------------------------------
(* Routes: up to two with any action, three with the common ones; entries  *)
(* one under the other, blank ones, capitals, dots, networks good and bad. *)

Entry(kind, path) == [kind |-> kind, path |-> path, upper |-> FALSE, dot |-> FALSE]
Capitals == [Entry("domain", <<1>>) EXCEPT !.upper = TRUE]
Dotted(path) == [Entry("domain", path) EXCEPT !.dot = TRUE]
Empty == Entry("domain", <<>>)

Matches == {{}, {Empty}, {Capitals}, {Dotted(<<1>>)}, {Dotted(<<1, 2>>), Entry("domain", <<1>>)}, {Entry("domain", <<1>>)}, {Entry("domain", <<1, 2>>)},
            {Entry("cidr", <<0>>)}, {Entry("cidr", <<>>)}, {Entry("badcidr", <<0>>)},
            {Entry("cidr", <<0>>), Entry("domain", <<1, 2>>)}, {Empty, Entry("domain", <<1>>)}}
FewMatches == {{Empty}, {Entry("domain", <<1>>)}, {Entry("domain", <<1, 2>>)}, {Entry("cidr", <<0>>)}}

RoutesWith(actions, matches) ==
  {[action |-> a, value |-> "", match |-> m] : a \in actions, m \in matches}
Proxied(matches) == {[action |-> "proxy", value |-> "out", match |-> m] : m \in matches}

AnyRoute == RoutesWith({"direct", "BLOCK", "reject", "proxy", "other"}, Matches) \union Proxied(Matches)
FewRoutes == RoutesWith({"direct", "reject"}, FewMatches) \union Proxied(FewMatches)

MCRouteLists == SeqOf(AnyRoute, 2) \union [1 .. 3 -> FewRoutes]
MCCustomLists == {<<>>, <<[match |-> {Entry("domain", <<1, 2>>)}, outbound |-> "custom"]>>}
MCDestinations == {Entry("domain", <<1>>), Entry("domain", <<1, 2>>), Entry("domain", <<1, 2, 3>>),
                   Entry("domain", <<2>>), Entry("cidr", <<0, 1>>), Entry("cidr", <<1, 1>>)}

-----------------------------------------------------------------------------
(* Settings: three nodes with few ids, every environment, durations that   *)
(* are missing, bad, negative, zero or positive.                           *)

SomeDurations == {[text |-> "unset", ticks |-> 0], [text |-> "bad", ticks |-> 0]}
                   \union {[text |-> "set", ticks |-> t] : t \in {-1, 0, 5}}
SomeNodes == [id : {"", "a", "b"}, enabled : {"unset", "false"}]

Files ==
  [url : {"", "https://panel"}, token : {"", "t"}, tokenEnv : {"", "NAME"}, pull : SomeDurations,
   report : {[text |-> "set", ticks |-> 0]}, nodes : SeqOf(SomeNodes, 1)]
  \union
  [url : {"http://panel"}, token : {"t"}, tokenEnv : {""}, pull : {[text |-> "set", ticks |-> 5]},
   report : SomeDurations, nodes : SeqOf(SomeNodes, 3)]
Environments == [url : {"", "ftp://panel"}, token : {"", "e"}, named : {"", "n"}, node : {"", "x"}]
NoEnvironment == [url : {""}, token : {""}, named : {""}, node : {""}]

MCSettingCases ==
  [file : Files, env : NoEnvironment] \union [file : {f \in Files : Len(f.nodes) < 2}, env : Environments]
MCPanelSeconds == {-1, 0, 1, 60, 511, 512, 1000, 1024, 1025}

-----------------------------------------------------------------------------
(* Inbounds: the certificate settings of the panel and of the fallback on  *)
(* one side, protocols and REALITY on the other.                           *)

Maybe(text) == {"", text}
Lines == {<<>>, <<[name |-> "CF_API_TOKEN", value |-> "file"], [name |-> "CF_API_TOKEN", value |-> ""]>>,
          <<[name |-> "CLOUDFLARE_API_TOKEN", value |-> "file"]>>,
          <<[name |-> "ALICLOUD_ACCESS_KEY", value |-> "file"]>>,
          <<[name |-> "ALICLOUD_SECRET_KEY", value |-> "file"], [name |-> "ALICLOUD_ACCESS_KEY", value |-> "file"]>>}

Fallbacks ==
  [mode : {"", "FILE", "content"}, certPath : Maybe("file"), keyPath : Maybe("file"), cert : {"file"},
   key : Maybe("file"), name : {""}, provider : {""}, envs : {<<>>}]
  \union
  [mode : {"dns-01", "http-01", "self-signed", "typo"}, certPath : {""}, keyPath : {""}, cert : {""}, key : {""},
   name : Maybe("file"), provider : {"", "cloudflare", "alidns"}, envs : Lines]

\* Objects with a mode and some of the keys of the pairs, aliases included.
PanelCerts ==
  {<<>>} \union
  UNION {{[k \in {"cert_mode"} \union keys |-> IF k = "cert_mode" THEN mode ELSE texts[k]] :
            mode \in {"", "file", "content"}, texts \in [keys -> Maybe("panel")]} :
         keys \in SUBSET {"cert_path", "key_path", "cert_content", "certificate", "cert_key"}}

BasePanel == [protocol |-> "trojan", version |-> 0, port |-> 443, plugin |-> "", decryption |-> "", tls |-> 1,
              settings |-> <<>>, realityPort |-> [type |-> "other", exact |-> FALSE, whole |-> 0],
              cert |-> <<>>, serverName |-> "panel", transport |-> "", custom |-> FALSE]

WithCerts == {[BasePanel EXCEPT !.cert = c, !.serverName = n] : c \in PanelCerts, n \in Maybe("panel")}
WithProtocols ==
  {[BasePanel EXCEPT !.protocol = p, !.version = v, !.port = n, !.tls = t, !.decryption = d, !.transport = d,
                     !.plugin = x, !.custom = (x # "")] :
     p \in Protocols \union {"mieru", "Mieru", "Hysteria", "VLESS", "other"}, v \in {0, 2, 4},
     n \in {0, 443, 65536}, t \in {0, 1}, d \in {"", "none", "UDP"}, x \in Maybe("panel")}
WithReality ==
  {[BasePanel EXCEPT !.tls = 2, !.settings = s, !.realityPort = [type |-> t, exact |-> e, whole |-> n]] :
     s \in UNION {[keys -> {" ", "panel"}] : keys \in SUBSET {"server_name", "private_key"}},
     t \in {"string", "int", "float", "other"}, e \in BOOLEAN, n \in {0, 1, 65535, 65536}}

GoodFallback == [mode |-> "file", certPath |-> "file", keyPath |-> "file", cert |-> "", key |-> "", name |-> "",
                 provider |-> "", envs |-> <<>>]

MCInboundCases ==
  [cfg : WithCerts, fallback : {GoodFallback, [GoodFallback EXCEPT !.mode = "content"]}]
  \union [cfg : {c \in WithCerts : c.cert = <<>>}, fallback : Fallbacks]
  \union [cfg : WithProtocols \union WithReality, fallback : {GoodFallback}]

MCUserLists ==
  {{[id |-> 1, uuid |-> x], [id |-> 2, uuid |-> y]} :
     x \in [digits : BOOLEAN, n : {1}], y \in [digits : BOOLEAN, n : {2, 3}]}

-----------------------------------------------------------------------------
(* Readings of the counter: four in any order, with errors and equal times.*)

Bytes == {0, 3, 5}
Times == {<<1, 2, 3, 4>>, <<1, 4, 6, 7>>, <<1, 2, 2, 5>>}
MCReadingLists ==
  {[i \in 1 .. 4 |-> [ok |-> oks[i], bytes |-> bytes[i], at |-> times[i]]] :
     oks \in [1 .. 4 -> BOOLEAN], bytes \in [1 .. 4 -> Bytes], times \in Times}
=============================================================================
