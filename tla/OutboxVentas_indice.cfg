SPECIFICATION OutboxFairSpec
CONSTANTS
  Venta = {v1}
  BatchSize = 2
  MaxAttempts = 2
  MaxCambios = 3
  MaxFallas = 2
  MaxCaidas = 1
INVARIANT OutboxIInv
INVARIANT AtrasadaConEvento
PROPERTY IndiceConverge
