------------------------------ MODULE MCNotify ------------------------------
EXTENDS Notify

MCPublished == [s \in ToSet(STREAMS) |->
                  IF s = "order.filled" THEN 2 ELSE IF s = "order.rejected" THEN 0 ELSE 1]
=============================================================================
