------------------------------ MODULE MCServing ------------------------------
(* Serving for TLC: three targets, of which one speaks plain http and one  *)
(* is an IPFS gateway, and two deployments of a site.                      *)
EXTENDS Serving

CONSTANTS t1, t2, t3, d1, d2, b1, anna, bert

MCProfile == <<t1, t2, t3>>

MCURLKind == t1 :> "redirect" @@ t2 :> "redirect" @@ t3 :> "ipfs"

MCRank == t1 :> 3 @@ t2 :> 1 @@ t3 :> 2

MCWorkerRank == t1 :> 3 @@ t2 :> 3 @@ t3 :> 2

(* Any two functions will do where the halves do not read the same.        *)
Base == anna :> 7 @@ bert :> 2 @@ NoClient :> 0

MCHash == [key \in Keys |->
    Base[key[3]] + (CASE key[2] = "spaced" -> 1 [] key[2] = "encoded" -> 2 [] OTHER -> 0)]

MCWorkerHash == [key \in Keys |->
    Base[key[3]] + (IF key[1] = "accented" THEN 1 ELSE 0)
                 + (IF key[2] = "encoded" THEN 2 ELSE 0)]

Source(t, region, weight, priority, fallbackOnly) ==
    [target |-> t, region |-> region, weight |-> weight,
     priority |-> priority, fallbackOnly |-> fallbackOnly]

Policy(mode, sources) ==
    [name |-> "plain", mode |-> mode, region |-> "overseas", sources |-> sources]

Accel == Policy("global_accel", <<Source(t1, "overseas", 2, 2, FALSE),
                                  Source(t2, "", 1, 1, FALSE),
                                  Source(t3, "", 1, 0, TRUE)>>)

GlobalBalance == Policy("global_load_balance", <<Source(t1, "", 1, 0, FALSE),
                                                 Source(t2, "overseas", 3, 0, FALSE),
                                                 Source(t3, "china", 0, 0, FALSE)>>)

Balance == Policy("load_balance", <<Source(t1, "", 2, 0, TRUE),
                                    Source(t3, "", 1, 0, FALSE)>>)

(* Sources that only their names tell apart: t2 and t3 come in one order in *)
(* Go and in the other at the edge, t1 and t3 in the same.                 *)
Tied == Policy("global_accel", <<Source(t1, "", 2, 0, FALSE),
                                 Source(t3, "", 2, 0, FALSE)>>)

Torn == Policy("global_accel", <<Source(t2, "", 2, 0, FALSE),
                                 Source(t3, "", 2, 0, FALSE)>>)

OneSource == Policy("load_balance", <<Source(t1, "", 1, 0, FALSE)>>)

Dep(policy, failover, spa, notFound) ==
    [policy |-> policy, failover |-> failover, spa |-> spa, notFound |-> notFound]

Setup(policy, bucketPolicy, allowRedirect, one, two) ==
    [policy |-> policy, bucketPolicy |-> bucketPolicy,
     allowRedirect |-> allowRedirect, first |-> d1,
     deps |-> d1 :> one @@ d2 :> two]

Fast == Setup(Accel, FALSE, TRUE,
              Dep(FALSE, FALSE, TRUE, FALSE), Dep(TRUE, FALSE, FALSE, FALSE))
Careful == Setup(Accel, TRUE, FALSE,
                 Dep(TRUE, TRUE, FALSE, TRUE), Dep(FALSE, TRUE, FALSE, FALSE))
World == Setup(GlobalBalance, FALSE, FALSE,
               Dep(TRUE, FALSE, FALSE, TRUE), Dep(FALSE, FALSE, TRUE, FALSE))
Copies == Setup(Balance, TRUE, TRUE,
                Dep(FALSE, TRUE, FALSE, FALSE), Dep(TRUE, TRUE, TRUE, FALSE))
Single == Setup(OneSource, TRUE, FALSE,
                Dep(TRUE, FALSE, TRUE, FALSE), Dep(FALSE, FALSE, FALSE, FALSE))
Even == Setup(Tied, FALSE, FALSE,
              Dep(TRUE, FALSE, FALSE, FALSE), Dep(FALSE, FALSE, FALSE, FALSE))
Uneven == Setup(Torn, FALSE, FALSE,
                Dep(TRUE, FALSE, FALSE, FALSE), Dep(TRUE, TRUE, FALSE, FALSE))
Foreign == Setup([GlobalBalance EXCEPT !.name = "accented"], FALSE, FALSE,
                 Dep(TRUE, FALSE, FALSE, FALSE), Dep(TRUE, TRUE, FALSE, FALSE))

Worker(mode, fallback, static, entry, secret) ==
    [mode |-> mode, fallback |-> fallback, static |-> static,
     entry |-> entry, secret |-> secret]

Start(worker, site, bad, dead, missing) ==
    [env |-> worker, setup |-> site, sick |-> bad, down |-> dead,
     pending |-> missing]

MCStarts ==
    LET asServer == Worker("off", "unset", "off", FALSE, "agreed")
        bare     == Worker("off", "unset", "off", FALSE, "none")
        lenient  == Worker("route", "true", "off", FALSE, "other")
        strict   == Worker("strict", "unset", "off", FALSE, "none")
        assets   == Worker("route", "unset", "bound", TRUE, "agreed")
        unbound  == Worker("route", "false", "unbound", FALSE, "none")
    IN  {Start(asServer, Fast, {}, {}, {t2}), Start(asServer, Careful, {t1}, {t1}, {}),
         Start(bare, World, {}, {t2}, {}),    Start(lenient, Copies, {t3}, {t3}, {}),
         Start(strict, World, {t2}, {t2}, {}),
         Start(strict, Careful, {}, {t2}, {}), Start(strict, Fast, {}, {}, {t3}),
         Start(assets, Single, {}, {}, {}),   Start(assets, Copies, {t1}, {t1, t3}, {}),
         Start(unbound, Fast, {}, {}, {}),
         Start(strict, Even, {}, {}, {}),     Start(strict, Uneven, {}, {}, {}),
         Start(strict, Foreign, {}, {}, {})}

Request(path, method, range, country, client, via) ==
    [path |-> path, method |-> method, range |-> range, country |-> country,
     client |-> client, peer |-> bert, via |-> via]

MCRequests ==
    {Request("asset", "GET", FALSE, "CN", anna, "worker"),
     Request("asset", "GET", FALSE, "US", bert, "worker"),
     Request("spaced", "GET", FALSE, "US", anna, "worker"),
     Request("asset", "HEAD", TRUE, "none", NoClient, "worker"),
     Request("asset", "POST", FALSE, "US", anna, "worker"),
     Request("index", "GET", FALSE, "US", anna, "worker"),
     Request("missing", "HEAD", FALSE, "US", anna, "worker"),
     Request("missing", "GET", FALSE, "US", anna, "worker"),
     Request("moved", "GET", FALSE, "US", anna, "worker"),
     Request("preview", "GET", FALSE, "CN", anna, "worker"),
     Request("asset", "GET", FALSE, "none", NoClient, "origin"),
     Request("bucket", "GET", FALSE, "CN", NoClient, "origin"),
     Request("object", "GET", FALSE, "US", anna, "origin"),
     Request("download", "GET", FALSE, "US", anna, "worker")}
=============================================================================
