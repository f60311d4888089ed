-------------------------------- MODULE MCRest --------------------------------
EXTENDS Rest

\* A read, a write, a cancel, the owner lookup of an API key, and a write that carries no credential.
Mixed == [none |-> {FetchBalance, RevokeAgent}, hmac |-> {DepositTarget, CreateOrder},
          session |-> {FetchBalance, CancelOrder}, wallet |-> {FetchBalance, CancelOrder},
          agent |-> {FetchBalance, CreateOrder}]
===============================================================================
