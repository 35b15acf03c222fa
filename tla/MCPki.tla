-------------------------------- MODULE MCPki --------------------------------
\* Three of the listeners: AXIAM's and the broker's, which `axiam-up' starts, and
\* the edge's.
EXTENDS Pki

MCListeners == <<"axiam-server", "rabbitmq", "caddy">>
=============================================================================
