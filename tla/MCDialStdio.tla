---------------------------- MODULE MCDialStdio ----------------------------
(* Small deployments of Serve and DialStdio for TLC.                        *)
EXTENDS DialStdio, TLC
CONSTANTS s1, s2, c1, c2, c3

(* A ws server, two servers that share a unix path, a child over stdio.      *)
SmallDeployments == { s1 :> "ws" @@ s2 :> "off",
                      s1 :> "unix" @@ s2 :> "unix",
                      s1 :> "stdio" @@ s2 :> "off" }
SmallClients == "ws" :> {c1, c2, c3} @@ "unix" :> {c1} @@ "stdio" :> {c1} @@ "off" :> {}
=============================================================================
