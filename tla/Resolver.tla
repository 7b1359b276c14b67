------------------------------- MODULE Resolver -------------------------------
(***************************************************************************)
(* What a request is made of, and where it goes (internal/meta/extract.go, *)
(* internal/upstream/resolver.go): operators without state, except for the *)
(* cache of environment variables, which the requests of all goroutines    *)
(* share.                                                                  *)
(*                                                                         *)
(* A host is the sequence of its labels.  A name lookup can give another   *)
(* answer every time, or fail: Validate is the set of its outcomes.        *)
(***************************************************************************)
EXTENDS Integers, SequencesExt

CONSTANTS
  Bizs,            \* names of businesses
  BizOf,           \* first segments of paths -> the business they name, or None
  Urls, HostOf,    \* base URLs that can be parsed, and their hosts
  GoodScheme,      \* the URLs whose scheme is allowed
  Addresses,       \* the hosts that are IP literals
  PrivateHosts,    \* the hosts whose addresses are private
  Flaky,           \* the hosts whose lookup may fail
  AllowHeader, AllowPrivate, Allowlist,    \* SecurityPolicy
  EnvUrl,          \* the variable BIZ_x of each business, or None
  TrustedHops, UseRealIP,                  \* meta.Config
  ClientIP, ProxyIPs, Garbage,             \* the peer, the proxies before the gateway
  ProxiesJoin,     \* the proxies make one line of X-Forwarded-For, or each adds its own
  None

ASSUME ResolverAssumption ==
  /\ \A s \in DOMAIN BizOf : BizOf[s] \in Bizs \cup {None}
  /\ HostOf \in [Urls -> Seq(STRING)] /\ GoodScheme \subseteq Urls
  /\ \A p \in Allowlist : p.wild \in BOOLEAN /\ p.host \in Seq(STRING)
  /\ {AllowHeader, AllowPrivate, UseRealIP, ProxiesJoin} \subseteq BOOLEAN
  /\ EnvUrl \in [Bizs -> Urls \cup {None}] /\ None \notin Urls \cup Bizs
  /\ Urls \cap {"missing", "empty"} = {}
  /\ ClientIP \in STRING \ {None} /\ ProxyIPs \in Seq(STRING) /\ TrustedHops = Len(ProxyIPs)
  /\ Garbage \notin Range(ProxyIPs) \cup {ClientIP}
-----------------------------------------------------------------------------
\* Mutant: counted from the left, where a client writes what it likes.
FromLeft(n) == TrustedHops - 1
\* The index, from 0, of the entry of X-Forwarded-For that the outermost trusted
\* proxy wrote.
FromRight(n) == n - TrustedHops

ParseIP(a) == IF a = Garbage THEN None ELSE a

\* A request comes through TrustedHops proxies, each of which adds the peer it sees to
\* X-Forwarded-For: to the end of the one line it hands on, or as a line of its own.
\* Header.Get returns the first line; xff is that line and the others as the client
\* sent them.
HeaderGet(xff) ==
  CASE TrustedHops = 0 -> xff.first
    [] TrustedHops # 0 /\ ProxiesJoin ->
         xff.first \o xff.rest \o <<ClientIP>> \o SubSeq(ProxyIPs, 1, TrustedHops - 1)
    [] OTHER -> IF xff.first = <<>> THEN <<ClientIP>> ELSE xff.first
RemoteAddr == IF TrustedHops = 0 THEN ClientIP ELSE Last(ProxyIPs)

\* ExtractIP
ExtractIP(real, xff) ==
  LET parts == HeaderGet(xff)
      idx == FromRight(Len(parts))
      entry == IF TrustedHops > 0 /\ idx \in 0 .. Len(parts) - 1
               THEN ParseIP(parts[idx + 1]) ELSE None
  IN CASE UseRealIP /\ real # None /\ ParseIP(real) # None -> ParseIP(real)
       [] OTHER -> IF entry # None THEN entry ELSE RemoteAddr

\* ExtractBiz: the first segment, in lower case; None when it is empty, too long or
\* has other characters than letters, digits and hyphens.
ExtractBiz(seg) == BizOf[seg]
-----------------------------------------------------------------------------
Dotless(host) == Len(host) = 1

\* isPrivateHost: an address by itself, a name without a dot always, any other name
\* by all addresses a lookup gives; one that fails counts as private.
IsPrivateHost(host) ==
  CASE host \in Addresses -> {host \in PrivateHosts}
    [] host \notin Addresses /\ Dotless(host) -> {TRUE}
    [] OTHER -> {host \in PrivateHosts} \cup (IF host \in Flaky THEN {TRUE} ELSE {})

\* matchAllowlist: *.suffix matches names below it, not itself.
MatchAllowlist(host) ==
  \E p \in Allowlist :
    IF p.wild THEN IsSuffix(p.host, host) /\ Len(host) > Len(p.host) ELSE host = p.host

\* SecurityPolicy.Validate: the set of its possible answers.
Validate(url, fromHeader) ==
  CASE url \notin Urls \/ url \notin GoodScheme -> {FALSE}
    [] url \in GoodScheme /\ Allowlist # {} -> {MatchAllowlist(HostOf[url])}
    [] OTHER -> IF fromHeader \/ ~AllowPrivate
                THEN {~private : private \in IsPrivateHost(HostOf[url])} ELSE {TRUE}
-----------------------------------------------------------------------------
\* An entry of envCache: not there, empty, or a URL.
Missing == "missing"
Empty == "empty"
EnvCaches == [Bizs -> {Missing, Empty} \cup Urls]

\* Mutant: what the variable says is kept whatever Validate says.
EntryAnyhow(biz, valid) == IF EnvUrl[biz] = None THEN Empty ELSE EnvUrl[biz]
\* Mutant: a variable that is not set is stored as it is.
EntryRaw(biz, valid) == IF valid THEN EnvUrl[biz] ELSE None
\* What is stored after a lookup: the variable if it is set and valid.
EntryAfter(biz, valid) == IF EnvUrl[biz] = None \/ ~valid THEN Empty ELSE EnvUrl[biz]

Hit(entry) == entry # Missing

\* Outcomes of the lookup of a variable; one that is not set is not validated.
EnvOutcomes(biz) == IF EnvUrl[biz] = None THEN {FALSE} ELSE Validate(EnvUrl[biz], FALSE)
=============================================================================
