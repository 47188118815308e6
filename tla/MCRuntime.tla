------------------------------ MODULE MCRuntime ------------------------------
EXTENDS Runtime

CONSTANTS a1, a2, a3, c1, k1, k2, r1, r2

\* Two links and an empty address; one callback; two consoles.
MCAddrs == {a1, a2, a3}
MCEmpty == {a3}
MCCalls == {c1}
MCConsoles == {k1, k2}

\* A console on the first port; one on the port of lotus, with HTTPS; HTTPS
\* without a certificate, which does not start.
MCFile(n, lotus, port, backup, crt) ==
    [Lotus |-> lotus, Port |-> port, BackupPort |-> backup, Crt |-> crt, Key |-> crt,
     Server_dir |-> "host", TimeOut |-> n, TencentBucketName |-> "bucket",
     TencentBucketRegion |-> "region", AliyunEndpoint |-> "oss-cn-hangzhou"]
MCFiles == <<MCFile(4, FALSE, "15630", "5200", ""), MCFile(5, TRUE, "80", "443", "crt"),
             MCFile(5, FALSE, "443", "5200", "")>>
MCReaders == {r1, r2}
MCAsked == {"TimeOut", "bucketUrl", "regionId", "lotusConsoleUrl"}
=============================================================================
