CONSTANTS
  WEBAPI_SESSIONS = 2
  WEBAPI_NONCES = 2
  WEBAPI_SESSION_TTL_S = 2
  WEBAPI_NONCE_TTL_S = 1
  LOGIN_WIN_S = 2
  LOGIN_MAX_FAILS = 1
  MaxNow = 3
  MaxTokens = 3
  MaxNonces = 3
  MaxContras = 2
SPECIFICATION Spec
INVARIANTS
  AccesoLegitimo
  FuerzaBruta

  
