-------------------------- MODULE MCDnsSecondary --------------------------
EXTENDS MCDns, DnsSecondary
=============================================================================
