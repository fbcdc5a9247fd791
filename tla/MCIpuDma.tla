------------------------------- MODULE MCIpuDma -------------------------------
EXTENDS IpuDma

CONSTANTS b1, b2, c1, c2

MCSizes == [b \in Sg |-> IF b = b1 THEN <<1, 2>> ELSE <<1, 4>>]
MCBase == [o \in Buffers |-> IF o \in Sg THEN 20 ELSE IF o = c1 THEN 40 ELSE 50]
=============================================================================
