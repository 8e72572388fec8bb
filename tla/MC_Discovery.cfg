CONSTANTS b = b  q = q  Self = Self  BadAddr = BadAddr
CONSTANT Peers = {b, q}
CONSTANT Bootnodes <- MCBootnodes
CONSTANT MdnsPeers = {q}
CONSTANT EnableMDNS = TRUE
CONSTANT MdnsOutcomes = {TRUE, FALSE}
CONSTANT DhtOutcomes = {TRUE, FALSE}
SPECIFICATION Spec
PROPERTY JoinsOnceBootnodeReachable
