------------------------------ MODULE MCNetcore ------------------------------
(* Small instances of Netcore.                                              *)
EXTENDS Netcore

Opt(ssl, fallback, keep, proxy, address, body) ==
    [useSSL |-> ssl, fallbackSSL |-> fallback, use_http_keep_alive |-> keep,
     proxy_type |-> proxy, proxy_address |-> address, body |-> body]

\* Direct connections, and proxies found by name, of contexts that keep the
\* connection alive.
MCOptions == {Opt(FALSE, FALSE, TRUE, "NONE", FALSE, FALSE),
              Opt(TRUE, TRUE, TRUE, "NONE", FALSE, FALSE),
              Opt(TRUE, FALSE, FALSE, "NONE", FALSE, TRUE),
              Opt(FALSE, FALSE, TRUE, "GET", FALSE, FALSE),
              Opt(TRUE, FALSE, TRUE, "CONNECT", FALSE, TRUE)}

\* What the network and the application may do; what the findings are about is left out.
MCEnvironment == {"cancel", "restart", "ttl", "unreachable"}

\* The events behind most findings too, and a proxy given by its address.
MCAllOptions == {Opt(TRUE, TRUE, TRUE, "NONE", FALSE, FALSE),
                 Opt(TRUE, FALSE, FALSE, "CONNECT", TRUE, FALSE)}
MCAllEnvironment == MCEnvironment \cup
    {"tx_get_error", "tls_start_failure", "cancel_after_pop", "proxy_refused",
     "queue_full"}

\* One direct TLS connection, kept alive, that may fall back to plain HTTP.
MCFallback == {Opt(TRUE, TRUE, TRUE, "NONE", FALSE, FALSE)}

\* One plain connection.
MCPlain == {Opt(FALSE, FALSE, TRUE, "NONE", FALSE, FALSE)}

\* A tunnel through a proxy given by its address, without keep-alive.
MCTunnel == {Opt(TRUE, FALSE, FALSE, "CONNECT", TRUE, FALSE)}
=============================================================================
