------------------------------- MODULE Config -------------------------------
(***************************************************************************)
(* config.Read and HCCMConfiguration.Validate (internal/config/config.go)  *)
(* as functions of the environment the process is started in.  A variable  *)
(* of the environment is Unset or has a value; those that are parsed may   *)
(* hold something that cannot be (bad).  Tokens, credentials, the network  *)
(* and the location of Load Balancers are only set or not.  Variables that *)
(* are parsed and otherwise only passed on are known by their names.       *)
(***************************************************************************)
EXTENDS Integers

CONSTANT Unset  \* a variable that is not in the environment

\* The variables whose lookup may fail: booleans, durations and numbers that are
\* parsed, secrets that may be kept in a file, all alike.
Parsed ==
    {"HCLOUD_TOKEN", "ROBOT_USER", "ROBOT_PASSWORD", "HCLOUD_DEBUG", "ROBOT_ENABLED", "ROBOT_CACHE_TIMEOUT", "ROBOT_RATE_LIMIT_WAIT_TIME",
     "ROBOT_FORWARD_INTERNAL_IPS", "HCLOUD_METRICS_ENABLED", "HCLOUD_INSTANCES_ZONE_LABEL_ENABLED",
     "HCLOUD_SERVER_CACHE_MAX_AGE", "HCLOUD_LOAD_BALANCERS_ENABLED",
     "HCLOUD_LOAD_BALANCERS_DISABLE_PRIVATE_INGRESS", "HCLOUD_LOAD_BALANCERS_USE_PRIVATE_IP",
     "HCLOUD_LOAD_BALANCERS_USES_PROXYPROTOCOL", "HCLOUD_LOAD_BALANCERS_DISABLE_IPV6",
     "HCLOUD_LOAD_BALANCERS_HEALTH_CHECK_INTERVAL", "HCLOUD_LOAD_BALANCERS_HEALTH_CHECK_TIMEOUT",
     "HCLOUD_LOAD_BALANCERS_HEALTH_CHECK_RETRIES", "HCLOUD_LOAD_BALANCERS_DISABLE_PUBLIC_NETWORK",
     "HCLOUD_NETWORK_DISABLE_ATTACHED_CHECK", "HCLOUD_NETWORK_ROUTES_ENABLED"}

\* An environment; the other fields are named after the configuration.
Environment ==
    [bad: SUBSET Parsed, token: BOOLEAN, robot: {Unset, TRUE, FALSE}, user: BOOLEAN,
     password: BOOLEAN, forwardInternalIPs: {Unset, TRUE, FALSE},
     family: {Unset, "ipv4", "ipv6", "dualstack", "other"},
     mode: {Unset, "all", "one", "off", "other"}, maxAge: Int \cup {Unset},
     loadBalancers: {Unset, TRUE, FALSE}, location: BOOLEAN, networkZone: BOOLEAN,
     subnet: {Unset, "cidr", "other"}, algorithm: {Unset, "known", "other"},
     network: BOOLEAN, disableAttachedCheck: {Unset, TRUE, FALSE}, routes: {Unset, TRUE, FALSE}]

\* getEnvBool and the other lookups with a default.
Env(v, default) == IF v = Unset THEN default ELSE v

\* ServerCacheDefaultMaxAge, long enough for a refresh and a second lookup.
DefaultMaxAge == 1

\* Read returns no error.  Whether routes are enabled is only looked at when
\* there is a network.
Readable(e) ==
    e.bad \subseteq IF e.network THEN {} ELSE {"HCLOUD_NETWORK_ROUTES_ENABLED"}

\* The configuration Read returns then.
Read(e) ==
    [token |-> e.token, robot |-> Env(e.robot, FALSE), user |-> e.user, password |-> e.password,
     forwardInternalIPs |-> Env(e.forwardInternalIPs, TRUE) /\ Env(e.robot, FALSE),
     family |-> Env(e.family, "ipv4"),
     mode |-> Env(e.mode, "all"), maxAge |-> Env(e.maxAge, DefaultMaxAge),
     loadBalancers |-> Env(e.loadBalancers, TRUE), location |-> e.location,
     networkZone |-> e.networkZone, subnet |-> e.subnet, algorithm |-> e.algorithm,
     network |-> e.network, attachedCheck |-> ~Env(e.disableAttachedCheck, FALSE),
     routes |-> e.network /\ Env(e.routes, TRUE)]

\* Mutant of ValidMode: the mode is taken as it is.
ValidMode_Any(c) == TRUE

ValidMode(c) == c.mode \in {"all", "one", "off"}

\* Validate returns no error.
Validate(c) ==
    /\ c.token
    /\ c.family \in {"dualstack", "ipv4", "ipv6"}
    /\ ValidMode(c)
    /\ ~(c.location /\ c.networkZone)
    /\ c.subnet # "other" /\ c.algorithm # "other"
    /\ c.robot => c.user = c.password /\ ~c.routes
=============================================================================
