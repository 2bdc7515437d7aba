--------------------------- MODULE TraefikConfig ---------------------------
(***************************************************************************)
(* service/traefik_dynamic_config.py: compile_config builds traefik's      *)
(* routers, middlewares and services in dicts, entrypoint by entrypoint of *)
(* every routable app, later keys over earlier ones, and drops what would  *)
(* be an empty object.  A section is a function from its attributes, and   *)
(* those are functions from keys; a key "<app>_<port>" is the pair of      *)
(* both, which it determines.                                              *)
(***************************************************************************)
EXTENDS Naturals, Sequences

CONSTANTS
    Routable,        \* names of apps
    Containers,      \* container_name:container_port of entrypoints
    MaxRoutable,     \* bound of the apps passed in
    MaxEntrypoints   \* bound of the entrypoints of an app

(* No app has the name of traefik's own host, and "any" stands for none.   *)
ASSUME RoutableAssumption ==
    Routable \cap {"any", "traefik"} = {} /\ {MaxRoutable, MaxEntrypoints} \subseteq Nat

VARIABLES
    infos,         \* the apps passed in: a sequence of app and entrypoints
    disableSsl,    \* settings: traefik.disable_ssl
    appAt, epAt,   \* where the two loops are
    stage,         \* of compile_config
    sections,      \* attributes of the model
    http, tcp      \* ... and their values

traefikVars == <<infos, disableSsl, appAt, epAt, stage, sections, http, tcp>>

EntrypointPort == {"http", "mqtt"}

Entrypoint == [port : EntrypointPort, container : Containers]

AppInfo == [app : Routable, entrypoints : UNION {[1..n -> Entrypoint] : n \in 0..MaxEntrypoints}]

Name(s) == <<s, "">>

-----------------------------------------------------------------------------
(* write_traefik_dyn_config passes every routable app once.                *)
TraefikInit ==
    /\ infos \in UNION {[1..n -> AppInfo] : n \in 0..MaxRoutable}
    /\ \A i, j \in DOMAIN infos : infos[i].app = infos[j].app => i = j
    /\ disableSsl \in BOOLEAN
    /\ appAt = 1 /\ epAt = 1
    /\ stage = "http"
    /\ sections = {} /\ http = <<>> /\ tcp = <<>>

HttpEntrypoint == IF disableSsl THEN "http" ELSE "https"

(* make_http_cert_resolver and make_tcp_cert_resolver.                     *)
CertResolver == IF disableSsl THEN "none" ELSE "letsencrypt"

Router(host, path, entrypoint, service, middlewares) ==
    [host |-> host, path |-> path, entryPoint |-> entrypoint, service |-> service,
     middlewares |-> middlewares, tls |-> CertResolver]

CoreRouter(path, service, middlewares) ==
    Router("any", path, HttpEntrypoint, service, middlewares)

(* A dict of pairs of a key and a value.                                   *)
Dict(items) == [k \in {i[1] : i \in items} |-> (CHOOSE i \in items : i[1] = k)[2]]

CoreRouters ==
    {<<<<"shard_core", "public">>,
       CoreRouter("/core/public", Name("shard_core"), <<"strip", "auth-public">>)>>,
     <<<<"shard_core", "private">>,
       CoreRouter("/core/protected", Name("shard_core"), <<"strip", "auth-private">>)>>,
     <<<<"shard_core", "management">>,
       CoreRouter("/core/management", Name("shard_core"), <<"strip", "auth-management">>)>>,
     <<Name("web-terminal"), CoreRouter("/", Name("web-terminal"), <<>>)>>,
     <<Name("traefik"),
       Router("traefik", "/", HttpEntrypoint, Name("api@internal"), <<"auth-private">>)>>}

Middlewares ==
    {<<"strip", "/core/">>, <<"auth-private", "authenticate_terminal">>,
     <<"auth-management", "authenticate_management">>, <<"auth-public", "public">>,
     <<"auth", "auth">>, <<"app-error", "app_error">>}

CoreServices ==
    {<<Name("shard_core"), "shard_core:80">>, <<Name("web-terminal"), "web-terminal:80">>}

(* _add_http_section: the pages of the core, the web terminal, traefik's   *)
(* own dashboard, and the middlewares that ask the core who is calling.    *)
AddHttpSection ==
    /\ stage = "http"
    /\ http' = [routers |-> Dict(CoreRouters), middlewares |-> Dict(Middlewares),
                services |-> Dict(CoreServices)]
    /\ sections' = sections \cup {"http"}
    /\ stage' = "tcp"
    /\ UNCHANGED <<infos, disableSsl, appAt, epAt, tcp>>

AddTcpSection ==
    /\ stage = "tcp"
    /\ tcp' = [routers |-> <<>>, services |-> <<>>]
    /\ sections' = sections \cup {"tcp"}
    /\ stage' = "apps"
    /\ UNCHANGED <<infos, disableSsl, appAt, epAt, http>>

-----------------------------------------------------------------------------
With(dict, key, value) ==
    [k \in DOMAIN dict \cup {key} |-> IF k = key THEN value ELSE dict[k]]

(* Fault: the key does not tell apps apart.                                *)
KeyOfPort(app, ep) == <<"app", ep.port>>

Key(app, ep) == <<app, ep.port>>

(* _add_router: app-error outside, so that it sees the refusals of auth.   *)
AppRouter(app, ep) ==
    IF ep.port = "http"
    THEN Router(app, "/", HttpEntrypoint, Key(app, ep), <<"app-error", "auth">>)
    ELSE Router(app, "/", "mqtt", Key(app, ep), <<>>)

(* _add_router and _add_service.                                           *)
AddTo(section, app, ep) ==
    [section EXCEPT !.routers = With(@, Key(app, ep), AppRouter(app, ep)),
                    !.services = With(@, Key(app, ep), ep.container)]

AddEntrypoint ==
    /\ stage = "apps" /\ appAt \in DOMAIN infos
    /\ epAt \in DOMAIN infos[appAt].entrypoints
    /\ LET app == infos[appAt].app
           ep == infos[appAt].entrypoints[epAt]
       IN  \/ ep.port = "http" /\ http' = AddTo(http, app, ep) /\ UNCHANGED tcp
           \/ ep.port = "mqtt" /\ tcp' = AddTo(tcp, app, ep) /\ UNCHANGED http
    /\ epAt' = epAt + 1
    /\ UNCHANGED <<infos, disableSsl, appAt, stage, sections>>

NextApp ==
    /\ stage = "apps" /\ appAt \in DOMAIN infos
    /\ epAt \notin DOMAIN infos[appAt].entrypoints
    /\ appAt' = appAt + 1 /\ epAt' = 1
    /\ UNCHANGED <<infos, disableSsl, stage, sections, http, tcp>>

(* "traefik cannot handle empty yaml objects here".                        *)
DropEmpty ==
    /\ stage = "apps" /\ appAt \notin DOMAIN infos
    /\ tcp' = [x \in {y \in DOMAIN tcp : DOMAIN tcp[y] # {}} |-> tcp[x]]
    /\ sections' = IF DOMAIN tcp' = {} THEN sections \ {"tcp"} ELSE sections
    /\ stage' = "done"
    /\ UNCHANGED <<infos, disableSsl, appAt, epAt, http>>

TraefikNext == AddHttpSection \/ AddTcpSection \/ AddEntrypoint \/ NextApp \/ DropEmpty

TraefikSpec == TraefikInit /\ [][TraefikNext]_traefikVars

-----------------------------------------------------------------------------
(* What a missing section or attribute is to traefik: nothing.             *)
TcpPart(x) == IF "tcp" \in sections /\ x \in DOMAIN tcp THEN tcp[x] ELSE <<>>

TcpRouters == TcpPart("routers")

TcpServices == TcpPart("services")

(* The finished file has no empty object in it, for every combination of   *)
(* apps with and without mqtt.                                             *)
NoEmptyObject ==
    stage = "done" /\ "tcp" \in sections =>
        DOMAIN tcp # {} /\ \A x \in DOMAIN tcp : DOMAIN tcp[x] # {}

(* Every router names a service and middlewares that are there: traefik    *)
(* drops a router with a dangling name.                                    *)
NamesResolve ==
    stage = "done" =>
        /\ \A k \in DOMAIN http.routers :
              /\ http.routers[k].service \in DOMAIN http.services \cup {Name("api@internal")}
              /\ \A i \in DOMAIN http.routers[k].middlewares :
                    http.routers[k].middlewares[i] \in DOMAIN http.middlewares
        /\ \A k \in DOMAIN TcpRouters : TcpRouters[k].service \in DOMAIN TcpServices

(* A request for an app's host reaches a container of that app, over an    *)
(* entrypoint of its kind and, for http, past the app's rules; no app's    *)
(* entrypoint takes over another app's or the core's; and every entrypoint *)
(* kind an app has is routed.                                              *)
HostsLeadHome ==
    stage = "done" =>
        \A i \in DOMAIN infos : \A port \in EntrypointPort :
            LET info == infos[i]
                own == {info.entrypoints[j].container :
                          j \in {k \in DOMAIN info.entrypoints : info.entrypoints[k].port = port}}
                routers == IF port = "http" THEN http.routers ELSE TcpRouters
                services == IF port = "http" THEN http.services ELSE TcpServices
                hosted == {k \in DOMAIN routers : routers[k].host = info.app}
            IN  /\ own # {} <=> hosted # {}
                /\ \A k \in hosted :
                      /\ services[routers[k].service] \in own
                      /\ port = "http" => "auth" \in {routers[k].middlewares[m] :
                                                        m \in DOMAIN routers[k].middlewares}

(* The configuration that compile_config returns is what traefik has to be *)
(* told, for every list of apps.                                           *)
ConfigSound == NoEmptyObject /\ NamesResolve /\ HostsLeadHome
=============================================================================
