----------------------------- MODULE MCS3Objects -----------------------------
\* The S3 endpoint and the tunnel on a small instance
EXTENDS S3Objects

Name(labels) == [name |-> labels]

MCBucket == Name(<<"s3", "Aws">>)
MCHosts == {MCBucket, Name(<<"x", "s3", "aws">>), Name(<<"aws">>), Name(<<"bad", "aws">>),
            Name(<<"Host">>), [ip |-> "i1"], [ip |-> "i2"]}
MCAllow == {Name(<<"**", "aws">>), Name(<<"host">>), [net |-> {"i1", "i2"}]}
MCDeny == {Name(<<"*", "s3", "aws">>), Name(<<"bad", "aws">>), [net |-> {"i2", "lo"}]}
MCLower ==
  [l \in {"s3", "aws", "x", "bad", "host", "Aws", "Host", "*", "**"} |->
     CASE l = "Aws" -> "aws" [] l = "Host" -> "host" [] OTHER -> l]

\* All names stand for an address that the manifest denies.
MCDns == [name \in {h.name : h \in {g \in MCHosts : "name" \in DOMAIN g}} |-> {"i2"}]

Kms(version, aad, plain) ==
  [kms |-> TRUE, version |-> version, aad |-> aad, accept_plaintext |-> plain]
MCConfigs == {Kms("v1", "key", TRUE), Kms("v2", "key+version", FALSE),
              [kms |-> FALSE, version |-> "v1", aad |-> "key", accept_plaintext |-> TRUE]}
=============================================================================
